---- MODULE Spec2Model ----
(***************************************************************************)
(* SemanticsRepository of ethtx                                            *)
(* (src/ethtx/providers/semantic_providers/repository.py): the tiered      *)
(* resolver get_semantics, its lru_cache memoization, the store write and  *)
(* store read paths, the standard classifier and the signature registry.   *)
(*                                                                         *)
(* Python values are modelled as follows.  A dict is a sequence of         *)
(* [key, val] entries in insertion order.  None is the record None where   *)
(* an object is expected and the string NoneStr where a str is expected.   *)
(* An AddressSemantics object lives in the variable heap and is referred   *)
(* to by its index there, because the memoization caches hand out the      *)
(* same object again and get_constructor_abi changes it in place.          *)
(*                                                                         *)
(* One call of a public method is a sequence of steps of one thread; a     *)
(* step ends at each access to state that other threads share (the caches, *)
(* the database, the recording log).  The answers of the remote            *)
(* collaborators (chain node, Etherscan, ENS) are a function of the        *)
(* address, fixed in the variable world.                                   *)
(***************************************************************************)
EXTENDS Integers, Sequences, FiniteSets, TLC

---------------------------------------------------------------------------
(* Bounds of the model *)

\* calls of public methods started in one behaviour
MaxCalls == 4
\* entries one lru_cache holds before it evicts; the code's maxsize is 128,
\* scaled down so that three keys overflow it
CacheCapacity == 2
\* calls started in one behaviour of the two-thread specification
MaxConcCalls == 2
\* calls started in one behaviour of the specification of the accessors
MaxAccCalls == 3
\* calls started in one behaviour of the specification of the classifier
MaxClassifyCalls == 1
\* calls started in one behaviour of the specification of the registry
MaxSigCalls == 4

---------------------------------------------------------------------------
(* Python values *)

None == [none |-> TRUE]
NoneStr == "None"

\* `not address`: the address is None or the empty string
NotAddressAlwaysFalse(address) == FALSE
NotAddress(address) == address = "" \/ address = NoneStr

Range(s) == {s[i] : i \in DOMAIN s}

\* dict operations on a sequence of [key, val] entries
DictHas(d, k) == \E i \in DOMAIN d : d[i].key = k
DictGet(d, k) == IF DictHas(d, k) THEN d[CHOOSE i \in DOMAIN d : d[i].key = k].val ELSE None
DictKeys(d) == {d[i].key : i \in DOMAIN d}

---------------------------------------------------------------------------
(* The universe of the model: chains, addresses, code hashes *)

ZERO_HASH == "0xc5d2460186f7233c927e7db2dcc703c0e500b653ca82273b7bfad8045d85a470"
H1 == "0xh1"
H2 == "0xh2"

Chains == {"1"}
A1 == "0xa1"
A2 == "0xa2"
NonEmptyAddresses == {A1, A2}
\* the empty string, and NoneStr for an address that is None
Addresses == {"", NoneStr} \cup NonEmptyAddresses
Threads == {"t1", "t2"}

---------------------------------------------------------------------------
(* The data model (ethtx.models.semantics_model) *)

ParameterSemantics(n, ty, comps, ix, dyn) ==
    [parameter_name |-> n, parameter_type |-> ty, components |-> comps,
     indexed |-> ix, dynamic |-> dyn]
Param(n, ty) == ParameterSemantics(n, ty, <<>>, FALSE, FALSE)

EventSemantics(sig, anon, n, params) ==
    [signature |-> sig, anonymous |-> anon, name |-> n, parameters |-> params]

FunctionSemantics(sig, n, ins, outs) ==
    [signature |-> sig, name |-> n, inputs |-> ins, outputs |-> outs]

ERC20Semantics(n, sym, dec) == [name |-> n, symbol |-> sym, decimals |-> dec]

\* ContractSemantics(code_hash=..., name=...) leaves the three maps empty
ContractSemantics(h, n, evs, fns, trs) ==
    [code_hash |-> h, name |-> n, events |-> evs, functions |-> fns,
     transformations |-> trs]

\* AddressSemantics(...) without standard and erc20 leaves both None
AddressSemantics(c, a, n, isc, con, std, erc) ==
    [chain_id |-> c, address |-> a, name |-> n, is_contract |-> isc,
     contract |-> con, standard |-> std, erc20 |-> erc]

SignatureArg(n, ty) == [name |-> n, type |-> ty]

\* Signature(signature_hash, name, args) takes count, tuple and guessed
\* from the model's defaults
DefaultCount == 1
DefaultGuessed == TRUE
Signature(h, n, args, cnt, tup, g) ==
    [signature_hash |-> h, name |-> n, args |-> args, count |-> cnt,
     tuple |-> tup, guessed |-> g]

---------------------------------------------------------------------------
(* Interfaces the ABI registry may return, and their decoding *)

EV_TRANSFER == "0xev_transfer"
EV_APPROVAL == "0xev_approval"
EV_APPROVAL_FOR_ALL == "0xev_approval_for_all"
EV_LOG == "0xev_log"
FN_TRANSFER == "0xfn_transfer"
FN_APPROVE == "0xfn_approve"
FN_OWNER_OF == "0xfn_owner_of"
FN_EXEC == "0xfn_exec"
FN_FILL == "0xfn_fill"
FN_CANCEL == "0xfn_cancel"
FN_PAUSE == "0xfn_pause"
FN_CONSTRUCTOR == "constructor"

ERC20_EVENTS == {EV_TRANSFER, EV_APPROVAL}
ERC20_FUNCTIONS == {FN_TRANSFER, FN_APPROVE}
ERC721_EVENTS == {EV_TRANSFER, EV_APPROVAL, EV_APPROVAL_FOR_ALL}
ERC721_FUNCTIONS == {FN_OWNER_OF, FN_APPROVE}

EventOrder == <<EV_TRANSFER, EV_APPROVAL, EV_APPROVAL_FOR_ALL, EV_LOG>>
FunctionOrder == <<FN_CONSTRUCTOR, FN_TRANSFER, FN_APPROVE, FN_OWNER_OF, FN_EXEC>>

AbiEvent(sig) ==
    CASE sig = EV_TRANSFER ->
           EventSemantics(sig, FALSE, "Transfer",
               <<ParameterSemantics("from", "address", <<>>, TRUE, FALSE),
                 Param("value", "uint256")>>)
      [] sig = EV_APPROVAL ->
           EventSemantics(sig, FALSE, "Approval",
               <<ParameterSemantics("owner", "address", <<>>, TRUE, FALSE)>>)
      [] sig = EV_APPROVAL_FOR_ALL ->
           EventSemantics(sig, FALSE, "ApprovalForAll", <<Param("approved", "bool")>>)
      [] OTHER ->
           EventSemantics(sig, TRUE, "LogNote",
               <<ParameterSemantics("data", "bytes", <<>>, FALSE, TRUE)>>)

AbiFunction(sig) ==
    CASE sig = FN_CONSTRUCTOR ->
           FunctionSemantics(sig, "constructor", <<Param("owner", "address")>>, <<>>)
      [] sig = FN_TRANSFER ->
           FunctionSemantics(sig, "transfer",
               <<Param("to", "address"), Param("value", "uint256")>>,
               <<Param("", "bool")>>)
      [] sig = FN_APPROVE ->
           FunctionSemantics(sig, "approve",
               <<Param("spender", "address"), Param("value", "uint256")>>,
               <<Param("", "bool")>>)
      [] sig = FN_OWNER_OF ->
           FunctionSemantics(sig, "ownerOf", <<Param("tokenId", "uint256")>>,
               <<Param("", "address")>>)
      [] sig = FN_FILL ->
           FunctionSemantics(sig, "fill",
               <<ParameterSemantics("order", "tuple",
                    <<Param("maker", "address"), Param("amount", "uint256"),
                      Param("salt", "uint256")>>,
                    FALSE, FALSE),
                 Param("flag", "bool")>>,
               <<>>)
      [] sig = FN_CANCEL ->
           FunctionSemantics(sig, "cancel",
               <<Param("id", "uint256"),
                 ParameterSemantics("order", "tuple",
                    <<Param("maker", "address"), Param("amount", "uint256")>>,
                    FALSE, FALSE)>>,
               <<>>)
      [] sig = FN_PAUSE -> FunctionSemantics(sig, "pause", <<>>, <<>>)
      [] OTHER ->
           FunctionSemantics(sig, "exec",
               <<ParameterSemantics("order", "tuple",
                    <<Param("maker", "address"), Param("amount", "uint256")>>,
                    FALSE, FALSE),
                 Param("flag", "bool")>>,
               <<>>)

\* a raw interface: the declared name and the signatures of its entries
RawSemantics(n, evs, fns) == [name |-> n, events |-> evs, functions |-> fns]

AbiErc20 == RawSemantics("Token", <<EV_TRANSFER, EV_APPROVAL>>, <<FN_TRANSFER, FN_APPROVE>>)
AbiErc721 ==
    RawSemantics("Nft", <<EV_TRANSFER, EV_APPROVAL, EV_APPROVAL_FOR_ALL>>,
                 <<FN_APPROVE, FN_OWNER_OF>>)
AbiPlain == RawSemantics("Vault", <<EV_LOG>>, <<FN_CONSTRUCTOR, FN_EXEC>>)

\* decode_events_and_functions(raw_semantics["abi"]): both maps keyed by
\* signature
decode_events_and_functions(raw) ==
    [events |-> [i \in DOMAIN raw.events |->
                    [key |-> raw.events[i], val |-> AbiEvent(raw.events[i])]],
     functions |-> [i \in DOMAIN raw.functions |->
                    [key |-> raw.functions[i], val |-> AbiFunction(raw.functions[i])]]]

---------------------------------------------------------------------------
(* The remote collaborators: what they answer for one address *)

Raise == [raise |-> TRUE]

\* EtherscanProvider.contract.get_contract_abi returns
\* (raw_semantics, decoded), or fails
RegistryAnswer(raw, decoded) == [raw_semantics |-> raw, decoded |-> decoded]
RegistryUnavailable == RegistryAnswer(None, FALSE)

LiveToken == ERC20Semantics("LiveToken", "LTK", 6)
GuessedToken == ERC20Semantics("GuessedToken", "GSS", 8)
ProxyToken == ERC20Semantics("ProxyToken", "PXY", 9)

\* code_hash:    Web3Provider.get_code_hash
\* registry:     get_contract_abi (Raise: the fetch fails)
\* token_read:   Web3Provider.get_erc20_token (Raise: the read fails)
\* guess_token:  Web3Provider.guess_erc20_token (None: not a token)
\* guess_proxy:  Web3Provider.guess_erc20_proxy (None: not a proxy)
\* ens:          ENSProvider.name
Profile(h, reg, tok, gt, gp, ens) ==
    [code_hash |-> h, registry |-> reg, token_read |-> tok, guess_token |-> gt,
     guess_proxy |-> gp, ens |-> ens]

\* an externally owned account; the answers never asked for are fixed
EOAProfiles(a) ==
    {Profile(ZERO_HASH, RegistryUnavailable, Raise, None, None, e) :
        e \in {"alice.eth", a, NoneStr}}

\* a contract with code hash h; the answers never asked for are fixed
ContractProfiles(h, abis) ==
    {Profile(h, Raise, Raise, None, None, NoneStr)}
    \cup {Profile(h, RegistryUnavailable, Raise, gt, None, NoneStr) :
            gt \in {None, GuessedToken}}
    \cup {Profile(h, RegistryAnswer(raw, TRUE), tok, None, gp, NoneStr) :
            raw \in abis, tok \in {Raise, LiveToken}, gp \in {None, ProxyToken}}

\* of the answers to a decoded interface only those are kept that the
\* code asks for: the live token read for an ERC20 interface, the proxy
\* probe for any other
QualifiesErc20(raw) ==
    /\ ERC20_EVENTS \subseteq Range(raw.events)
    /\ ERC20_FUNCTIONS \subseteq Range(raw.functions)
Canonical(p) ==
    \/ p.registry = Raise
    \/ ~p.registry.decoded
    \/ QualifiesErc20(p.registry.raw_semantics) /\ p.guess_proxy = None
    \/ ~QualifiesErc20(p.registry.raw_semantics) /\ p.token_read = Raise

Abis == {AbiErc20, AbiErc721, AbiPlain}

ProfilesOf(a, hashes, abis) ==
    EOAProfiles(a)
    \cup {p \in UNION {ContractProfiles(h, abis) : h \in hashes} : Canonical(p)}

\* the empty and the absent address are never looked up
EmptyProfile == Profile(ZERO_HASH, RegistryUnavailable, Raise, None, None, NoneStr)

Worlds ==
    {[a \in Addresses |->
        IF a = A1 THEN p1 ELSE IF a = A2 THEN p2 ELSE EmptyProfile] :
        p1 \in ProfilesOf(A1, {H1}, Abis), p2 \in ProfilesOf(A2, {H1, H2}, Abis)}

---------------------------------------------------------------------------
(* The Amendment Layer: amend_contract_semantics(contract), in place *)

NoAmendedHashes == {}
AmendedHashes == {H2}
AmendedTransformations ==
    <<[key |-> FN_APPROVE,
       val |-> <<[key |-> "value",
                  val |-> [transformed_name |-> "amount",
                           transformed_type |-> "uint256",
                           transformation |-> "value / 10**18"]]>>]>>

amend_contract_semantics(contract) ==
    IF contract.code_hash \in AmendedHashes
    THEN [contract EXCEPT !.transformations = AmendedTransformations]
    ELSE contract

---------------------------------------------------------------------------
(* State *)

VARIABLES
    world,          \* the collaborators' answers, by address
    dbAddresses,    \* database: (chain_id, address) -> address record
    dbContracts,    \* database: code_hash -> contract record
    dbSignatures,   \* database: the signature records, in insertion order
    heap,           \* the AddressSemantics objects created so far
    caches,         \* method -> its lru_cache, least recently used first
    records,        \* self._records
    pc,             \* thread -> where it is in its call
    frame,          \* thread -> the locals of its call
    ret,            \* thread -> what its last completed call gave
    nCalls,         \* calls started
    fetches,        \* (chain_id, address) -> resolutions begun (history)
    first           \* (chain_id, address) -> first record returned (history)

vars == <<world, dbAddresses, dbContracts, dbSignatures, heap, caches, records,
          pc, frame, ret, nCalls, fetches, first>>

Keys == Chains \X Addresses
Hashes == {ZERO_HASH, H1, H2}

Accessors ==
    {"get_event_abi", "get_transformations", "get_anonymous_event_abi",
     "get_function_abi", "get_constructor_abi", "check_is_contract",
     "get_standard"}
Memoized == {"get_semantics"} \cup Accessors

---------------------------------------------------------------------------
(* functools.lru_cache(maxsize): an ordered map, least recently used first *)

\* the position of key in the cache, 0 when it is absent
CacheFindAlwaysMiss(cache, key) == 0
CacheFind(cache, key) ==
    IF \E i \in DOMAIN cache : cache[i].key = key
    THEN CHOOSE i \in DOMAIN cache : cache[i].key = key
    ELSE 0

\* a hit makes the entry the most recently used
CacheTouch(cache, i) ==
    [j \in 1..Len(cache) |->
        IF j < i THEN cache[j] ELSE IF j < Len(cache) THEN cache[j + 1] ELSE cache[i]]

\* after the wrapped function returned: the result is stored unless the key
\* was stored meanwhile; a full cache drops its least recently used entry
CachePut(cache, key, val) ==
    IF CacheFind(cache, key) # 0 THEN cache
    ELSE IF Len(cache) >= CacheCapacity
         THEN Append(Tail(cache), [key |-> key, val |-> val])
         ELSE Append(cache, [key |-> key, val |-> val])

---------------------------------------------------------------------------
(* The trace of one call: every collaborator call, in order *)

Ev(call, result) == [call |-> call, result |-> result]
Calls(tr) == {tr[i].call : i \in DOMAIN tr}

DB_GET_ADDRESS == "database.get_address_semantics"
DB_GET_CONTRACT == "database.get_contract_semantics"
DB_INSERT_CONTRACT == "database.insert_contract"
DB_INSERT_ADDRESS == "database.insert_address"
DB_GET_SIGNATURES == "database.get_signature_semantics"
DB_INSERT_SIGNATURE == "database.insert_signature"
ENS_NAME == "ens_provider.name"
GET_CODE_HASH == "web3provider.get_code_hash"
GET_CONTRACT_ABI == "etherscan.contract.get_contract_abi"
GET_ERC20_TOKEN == "web3provider.get_erc20_token"
GUESS_ERC20_PROXY == "web3provider.guess_erc20_proxy"
GUESS_ERC20_TOKEN == "web3provider.guess_erc20_token"
AMEND == "amend_contract_semantics"
RECORDS_APPEND == "records.append"

---------------------------------------------------------------------------
(* _decode_standard_semantics *)

HasAnyErc20(events, functions) ==
    \/ \E e \in ERC20_EVENTS : DictHas(events, e)
    \/ \E f \in ERC20_FUNCTIONS : DictHas(functions, f)
\* all(... in events ...) and all(... in functions ...)
HasAllErc20(events, functions) ==
    /\ \A e \in ERC20_EVENTS : DictHas(events, e)
    /\ \A f \in ERC20_FUNCTIONS : DictHas(functions, f)
HasAllErc721(events, functions) ==
    /\ \A e \in ERC721_EVENTS : DictHas(events, e)
    /\ \A f \in ERC721_FUNCTIONS : DictHas(functions, f)

\* the descriptor substituted when the live read fails
DefaultErc20NoDecimals(name) == ERC20Semantics(name, name, 0)
DefaultErc20(name) == ERC20Semantics(name, name, 18)

Classified(standard, standard_semantics, trace) ==
    [standard |-> standard, standard_semantics |-> standard_semantics, trace |-> trace]
NotClassified == Classified(NoneStr, None, <<>>)

\* token_read is what get_erc20_token does when it is called: its token
\* data, or Raise
decode_standard_semantics(address, name, events, functions, token_read) ==
    IF NotAddress(address) THEN NotClassified
    ELSE IF HasAllErc20(events, functions)
    THEN IF token_read = Raise
         THEN Classified("ERC20", DefaultErc20(name), <<Ev(GET_ERC20_TOKEN, "raise")>>)
         ELSE Classified("ERC20",
                  ERC20Semantics(token_read.name, token_read.symbol, token_read.decimals),
                  <<Ev(GET_ERC20_TOKEN, "ok")>>)
    ELSE IF HasAllErc721(events, functions)
    THEN Classified("ERC721", None, <<>>)
    ELSE NotClassified

---------------------------------------------------------------------------
(* get_semantics, lines 193-276: the address has no stored record *)

IsContractCodeAlways(code_hash) == TRUE
\* code_hash != ZERO_HASH
IsContractCode(code_hash) == code_hash # ZERO_HASH

\* decoded and raw_semantics
RegistryUsable(answer) == answer.decoded /\ answer.raw_semantics # None

AnswerKind(answer) ==
    IF answer = Raise THEN "raise"
    ELSE IF answer.decoded /\ answer.raw_semantics # None THEN "interface"
    ELSE "none"
Found(x) == IF x = None THEN "none" ELSE "found"

Resolution(raised, sem, trace, cls) ==
    [raised |-> raised, sem |-> sem, trace |-> trace, classified |-> cls]

\* the record built from the registry's interface (lines 203-232)
from_registry(chain_id, address, code_hash, raw_semantics, w, trace) ==
    LET decoded == decode_events_and_functions(raw_semantics)
        cls == decode_standard_semantics(address, raw_semantics.name, decoded.events,
                                         decoded.functions, w.token_read)
        proxy_erc20 == w.guess_proxy
        erc20_semantics ==
            IF cls.standard = "ERC20" THEN cls.standard_semantics
            ELSE IF proxy_erc20 # None
                 THEN ERC20Semantics(proxy_erc20.name, proxy_erc20.symbol,
                                     proxy_erc20.decimals)
                 ELSE None
        probe == IF cls.standard = "ERC20" THEN <<>>
                 ELSE <<Ev(GUESS_ERC20_PROXY, Found(proxy_erc20))>>
        contract_semantics ==
            ContractSemantics(code_hash, raw_semantics.name, decoded.events,
                              decoded.functions, <<>>)
    IN  Resolution(FALSE,
            AddressSemantics(chain_id, address, raw_semantics.name, TRUE,
                             contract_semantics, cls.standard, erc20_semantics),
            trace \o cls.trace \o probe, cls)

\* the record built from the token guess (lines 236-261)
from_heuristic(chain_id, address, code_hash, w, trace) ==
    LET potential == w.guess_token
        standard == IF potential # None THEN "ERC20" ELSE NoneStr
        erc20_semantics ==
            IF potential # None
            THEN ERC20Semantics(potential.name, potential.symbol, potential.decimals)
            ELSE None
        contract_semantics == ContractSemantics(code_hash, address, <<>>, <<>>, <<>>)
    IN  Resolution(FALSE,
            AddressSemantics(chain_id, address, address, TRUE, contract_semantics,
                             standard, erc20_semantics),
            trace \o <<Ev(GUESS_ERC20_TOKEN, Found(potential))>>, NotClassified)

\* the record of an externally owned address (lines 265-276)
from_eoa(chain_id, address, w, trace) ==
    LET contract_semantics == ContractSemantics(ZERO_HASH, "EOA", <<>>, <<>>, <<>>)
    IN  Resolution(FALSE,
            AddressSemantics(chain_id, address, w.ens, FALSE, contract_semantics,
                             NoneStr, None),
            trace \o <<Ev(ENS_NAME, w.ens)>>, NotClassified)

\* a failing get_contract_abi is not caught: the call ends with its error
resolve(chain_id, address, w) ==
    LET code_hash == w.code_hash
        hashed == <<Ev(GET_CODE_HASH, code_hash)>>
        asked == hashed \o <<Ev(GET_CONTRACT_ABI, AnswerKind(w.registry))>>
    IN  IF IsContractCode(code_hash)
        THEN IF w.registry = Raise
             THEN Resolution(TRUE, None, asked, NotClassified)
             ELSE IF RegistryUsable(w.registry)
                  THEN from_registry(chain_id, address, code_hash,
                                     w.registry.raw_semantics, w, asked)
                  ELSE from_heuristic(chain_id, address, code_hash, w, asked)
        ELSE from_eoa(chain_id, address, w, hashed)

---------------------------------------------------------------------------
(* _read_stored_semantics *)

RECURSIVE decode_parameter(_)
decode_parameter(p) ==
    ParameterSemantics(
        p.parameter_name, p.parameter_type,
        IF "components" \in DOMAIN p
        THEN [i \in DOMAIN p.components |-> decode_parameter(p.components[i])]
        ELSE <<>>,
        p.indexed, p.dynamic)

decode_parameters(ps) == [i \in DOMAIN ps |-> decode_parameter(ps[i])]

\* lines 89-96
stored_erc20(raw) ==
    IF raw.erc20 # None
    THEN ERC20Semantics(raw.erc20.name, raw.erc20.symbol, raw.erc20.decimals)
    ELSE None

\* lines 105-158
stored_contract(raw) ==
    ContractSemantics(
        raw.code_hash, raw.name,
        [i \in DOMAIN raw.events |->
            [key |-> raw.events[i].key,
             val |-> EventSemantics(raw.events[i].key, raw.events[i].val.anonymous,
                        raw.events[i].val.name,
                        decode_parameters(raw.events[i].val.parameters))]],
        [i \in DOMAIN raw.functions |->
            [key |-> raw.functions[i].key,
             val |-> FunctionSemantics(raw.functions[i].key, raw.functions[i].val.name,
                        decode_parameters(raw.functions[i].val.inputs),
                        decode_parameters(raw.functions[i].val.outputs))]],
        [i \in DOMAIN raw.transformations |->
            [key |-> raw.transformations[i].key,
             val |-> [j \in DOMAIN raw.transformations[i].val |->
                        [key |-> raw.transformations[i].val[j].key,
                         val |-> [transformed_name |->
                                    raw.transformations[i].val[j].val.transformed_name,
                                  transformed_type |->
                                    raw.transformations[i].val[j].val.transformed_type,
                                  transformation |->
                                    raw.transformations[i].val[j].val.transformation]]]]])

\* raw_address_semantics["contract"] == ZERO_HASH
StoredEOA(raw) == raw.contract = ZERO_HASH

\* lines 160-161: the stored name, and whether ENS is asked for one
stored_name(raw, address) == IF "name" \in DOMAIN raw THEN raw.name ELSE address
AsksEns(raw, address) == stored_name(raw, address) = address /\ ~raw.is_contract

\* lines 160-177, once the contract semantics is known
stored_semantics(raw, contract_semantics, chain_id, address, w) ==
    AddressSemantics(chain_id, address,
        IF AsksEns(raw, address) THEN w.ens ELSE stored_name(raw, address),
        raw.is_contract, contract_semantics, raw.standard, stored_erc20(raw))

---------------------------------------------------------------------------
(* update_semantics and the database writes *)

\* semantics.contract.dict()
contract_dict(contract) ==
    [code_hash |-> contract.code_hash, name |-> contract.name,
     events |-> contract.events, functions |-> contract.functions,
     transformations |-> contract.transformations]

\* the copy whose contract is replaced by its code hash, as a dict
address_dict(semantics) ==
    [chain_id |-> semantics.chain_id, address |-> semantics.address,
     name |-> semantics.name, is_contract |-> semantics.is_contract,
     contract |-> semantics.contract.code_hash, standard |-> semantics.standard,
     erc20 |-> semantics.erc20]

\* database.insert_contract(contract, update_if_exist=True): the record
\* replaces the one of its code hash; an id is returned for a new record
InsertContractId(db, contract) == db[contract.code_hash] = None

---------------------------------------------------------------------------
(* insert_contract_signatures and update_or_insert_signature *)

\* v.signature.startswith("0x")
StartsWith0x(signature) == signature # FN_CONSTRUCTOR

\* "arg" in arg, over the strings of the model
ContainsArg(str) == str \in {"arg0", "arg1", "target"}

params_args(params) ==
    [i \in DOMAIN params |->
        SignatureArg(params[i].parameter_name, params[i].parameter_type)]

FunctionArgsTopLevel(v) == params_args(v.inputs)

\* lines 509-524
function_args(v) ==
    IF v.inputs # <<>> /\ v.inputs[1].parameter_type = "tuple"
    THEN params_args(v.inputs[1].components)
    ELSE params_args(v.inputs)

\* the signatures insert_contract_signatures registers, in order
contract_signatures(contract) ==
    LET hashed == SelectSeq(contract.functions, LAMBDA e : StartsWith0x(e.val.signature))
    IN  [i \in DOMAIN hashed |->
            Signature(hashed[i].val.signature, hashed[i].val.name,
                      function_args(hashed[i].val), DefaultCount, FALSE,
                      DefaultGuessed)]

MatchesIgnoringName(signature, sig) ==
    /\ signature.signature_hash = sig.signature_hash
    /\ Len(signature.args) = Len(sig.args)

\* lines 557-561
SignatureMatches(signature, sig) ==
    /\ signature.name = sig.name
    /\ signature.signature_hash = sig.signature_hash
    /\ Len(signature.args) = Len(sig.args)

\* the records of the hash that match
Matches(db, signature) ==
    {i \in DOMAIN db :
        /\ db[i].signature_hash = signature.signature_hash
        /\ SignatureMatches(signature, db[i])}

LastMatch(db, signature) ==
    LET hits == Matches(db, signature)
    IN  IF hits = {} THEN 0 ELSE CHOOSE i \in hits : \A j \in hits : i >= j

\* the first record of the hash that matches, 0 when none does
FirstMatch(db, signature) ==
    LET hits == Matches(db, signature)
    IN  IF hits = {} THEN 0 ELSE CHOOSE i \in hits : \A j \in hits : i <= j

\* lines 562-564
LooksSynthetic(signature, sig) ==
    /\ signature.args # <<>>
    /\ \E v \in {sig.args[1].name, sig.args[1].type} : ContainsArg(v)

\* lines 562-570: the matched record as it is written back
UpdatedKeepGuessed(signature, sig) ==
    [sig EXCEPT !.count = sig.count + 1, !.guessed = signature.guessed]
updated_signature(signature, sig) ==
    [sig EXCEPT
        !.args = IF LooksSynthetic(signature, sig)
                 THEN [i \in DOMAIN sig.args |->
                        SignatureArg(signature.args[i].name, signature.args[i].type)]
                 ELSE sig.args,
        !.count = sig.count + 1,
        !.guessed = FALSE]

---------------------------------------------------------------------------
(* Threads: the locals of a call and what a completed call gave *)

\* sem:         address_semantics, None while there is none
\* raw:         raw_address_semantics
\* contract_id: whether insert_contract returned an id
\* queue:       the signatures insert_contract_signatures has yet to register
\* found:       the position of the record update_or_insert_signature matched
\* sig:         that record, as it was read
\* semref:      what the nested get_semantics returned (0: None)
\* trace:       the collaborator calls made so far
\* classified:  what _decode_standard_semantics returned
\* args:        the interface given to _decode_standard_semantics, when that
\*              is the method called
\* was_cached, cached_ref: whether the key was in the cache of
\*              get_semantics when the call looked it up, and with what
NewFrame(method, chain_id, address, signature) ==
    [method |-> method, chain_id |-> chain_id, address |-> address,
     signature |-> signature, sem |-> None, raw |-> None, contract_id |-> FALSE,
     queue |-> <<>>, found |-> 0, sig |-> None, semref |-> 0, trace |-> <<>>,
     classified |-> NotClassified, args |-> None, was_cached |-> FALSE,
     cached_ref |-> 0]
IdleFrame == NewFrame("", "", "", NoneStr)

\* outcome: "returned" or "raised"; ref: the object returned (0: none);
\* value: the value returned, as it was at the return
Completed(fr, outcome, ref, value, hit) ==
    [method |-> fr.method, chain_id |-> fr.chain_id, address |-> fr.address,
     signature |-> fr.signature, outcome |-> outcome, ref |-> ref, value |-> value,
     hit |-> hit, trace |-> fr.trace, classified |-> fr.classified, args |-> fr.args,
     was_cached |-> fr.was_cached, cached_ref |-> fr.cached_ref]
NoCall == Completed(IdleFrame, "", 0, None, FALSE)

Unset == [unset |-> TRUE]
Deref(h, ref) == IF ref = 0 THEN None ELSE h[ref]

\* the thread's call ends
Finish(t, completed) ==
    /\ ret' = [ret EXCEPT ![t] = completed]
    /\ pc' = [pc EXCEPT ![t] = "idle"]
    /\ frame' = [frame EXCEPT ![t] = IdleFrame]

Goto(t, label, fr) ==
    /\ pc' = [pc EXCEPT ![t] = label]
    /\ frame' = [frame EXCEPT ![t] = fr]
    /\ ret' = ret

\* get_semantics returns to its caller: the user, or an accessor
Returned(t, fr, ref, value, hit) ==
    IF fr.method = "get_semantics"
    THEN /\ Finish(t, Completed(fr, "returned", ref, value, hit))
         /\ first' = [first EXCEPT ![<<fr.chain_id, fr.address>>] =
                        IF @ = Unset THEN value ELSE @]
    ELSE /\ Goto(t, "return_accessor", [fr EXCEPT !.semref = ref])
         /\ first' = first

TypeOK ==
    /\ world \in [Addresses -> [code_hash : Hashes, registry : {Raise} \cup
            [raw_semantics : {None} \cup
                [name : STRING, events : Seq(STRING), functions : Seq(STRING)],
             decoded : BOOLEAN],
          token_read : {Raise, LiveToken}, guess_token : {None, GuessedToken},
          guess_proxy : {None, ProxyToken}, ens : STRING]]
    /\ DOMAIN dbAddresses = Keys
    /\ DOMAIN dbContracts = Hashes
    /\ \A i \in DOMAIN dbSignatures : dbSignatures[i].count \in Nat
    /\ DOMAIN caches = Memoized
    /\ \A m \in Memoized : Len(caches[m]) <= CacheCapacity
    /\ records.on \in BOOLEAN
    /\ pc \in [Threads -> {"idle", "nested_lookup", "read_address", "read_contract",
                           "insert_contract", "insert_address", "get_signatures",
                           "insert_signature", "return_semantics", "return_accessor"}]
    /\ nCalls \in Nat

---------------------------------------------------------------------------
(* get_semantics *)

\* the lookup of lru_cache's wrapper, and the body's first lines when the
\* key is not cached (lines 181-187)
Lookup(t, fr0) ==
    LET cache == caches["get_semantics"]
        key == <<fr0.chain_id, fr0.address>>
        present == {j \in DOMAIN cache : cache[j].key = key}
        fr == [fr0 EXCEPT !.was_cached = present # {},
                          !.cached_ref = IF present = {} THEN 0
                                         ELSE cache[CHOOSE j \in present : TRUE].val]
        i == CacheFind(cache, key)
    IN  IF i # 0
        THEN /\ caches' = [caches EXCEPT !["get_semantics"] = CacheTouch(cache, i)]
             /\ Returned(t, fr, cache[i].val, Deref(heap, cache[i].val), TRUE)
        ELSE /\ caches' = caches
             /\ first' = first
             /\ Goto(t, IF NotAddress(fr.address) THEN "return_semantics"
                        ELSE "read_address", fr)

CallGetSemantics(t, chain_id, address) ==
    /\ pc[t] = "idle"
    /\ nCalls' = nCalls + 1
    /\ Lookup(t, NewFrame("get_semantics", chain_id, address, NoneStr))
    /\ UNCHANGED <<world, dbAddresses, dbContracts, dbSignatures, heap, records,
                   fetches>>

\* the nested self.get_semantics(chain_id, address) of an accessor
NestedLookup(t) ==
    /\ pc[t] = "nested_lookup"
    /\ Lookup(t, frame[t])
    /\ UNCHANGED <<world, dbAddresses, dbContracts, dbSignatures, heap, records,
                   fetches, nCalls>>

\* `if not address_semantics`
NeedsResolutionAlways(address_semantics) == TRUE
NeedsResolutionNever(address_semantics) == FALSE
NeedsResolution(address_semantics) == address_semantics = None

\* database.get_address_semantics (line 85) and, when there is no record,
\* the remote collaborators (lines 193-276); with a record of an
\* externally owned address, lines 98-101 and 160-177
ReadAddress(t) ==
    /\ pc[t] = "read_address"
    /\ LET fr == frame[t]
           key == <<fr.chain_id, fr.address>>
           w == world[fr.address]
           raw == dbAddresses[key]
           read == [fr EXCEPT !.raw = raw,
                       !.trace = @ \o <<Ev(DB_GET_ADDRESS, Found(raw))>>]
           eoa == ContractSemantics(raw.contract, "EOA", <<>>, <<>>, <<>>)
           stored ==
               IF raw = None THEN None
               ELSE IF StoredEOA(raw)
                    THEN stored_semantics(raw, eoa, fr.chain_id, fr.address, w)
                    ELSE Unset
           named == IF raw # None /\ StoredEOA(raw) /\ AsksEns(raw, fr.address)
                    THEN <<Ev(ENS_NAME, w.ens)>> ELSE <<>>
           res == resolve(fr.chain_id, fr.address, w)
       IN  /\ fetches' = [fetches EXCEPT ![key] = @ + 1]
           /\ IF stored = Unset
              THEN Goto(t, "read_contract", read)
              ELSE IF ~NeedsResolution(stored)
              THEN Goto(t, "return_semantics",
                        [read EXCEPT !.sem = stored, !.trace = @ \o named])
              ELSE IF res.raised
              THEN Finish(t, Completed([read EXCEPT !.trace = @ \o res.trace],
                                       "raised", 0, None, FALSE))
              ELSE Goto(t, "insert_contract",
                        [read EXCEPT !.sem = res.sem, !.trace = @ \o named \o res.trace,
                                     !.classified = res.classified])
    /\ UNCHANGED <<world, dbAddresses, dbContracts, dbSignatures, heap, caches,
                   records, nCalls, first>>

\* database.get_contract_semantics (line 105) and lines 108-177
ReadContract(t) ==
    /\ pc[t] = "read_contract"
    /\ LET fr == frame[t]
           w == world[fr.address]
           raw_contract == dbContracts[fr.raw.contract]
           read == [fr EXCEPT !.trace = @ \o <<Ev(DB_GET_CONTRACT, Found(raw_contract))>>]
           stored == stored_semantics(fr.raw, stored_contract(raw_contract),
                                      fr.chain_id, fr.address, w)
           named == IF AsksEns(fr.raw, fr.address)
                    THEN <<Ev(ENS_NAME, w.ens)>> ELSE <<>>
           res == resolve(fr.chain_id, fr.address, w)
       IN  IF raw_contract = None
           THEN Finish(t, Completed(read, "raised", 0, None, FALSE))
           ELSE IF ~NeedsResolution(stored)
           THEN Goto(t, "return_semantics",
                     [read EXCEPT !.sem = stored, !.trace = @ \o named])
           ELSE IF res.raised
           THEN Finish(t, Completed([read EXCEPT !.trace = @ \o named \o res.trace],
                                    "raised", 0, None, FALSE))
           ELSE Goto(t, "insert_contract",
                     [read EXCEPT !.sem = res.sem, !.trace = @ \o named \o res.trace,
                                  !.classified = res.classified])
    /\ UNCHANGED <<world, dbAddresses, dbContracts, dbSignatures, heap, caches,
                   records, nCalls, fetches, first>>

---------------------------------------------------------------------------
(* update_semantics, within get_semantics (line 278) *)

\* database.insert_contract (lines 488-490)
InsertContract(t) ==
    /\ pc[t] = "insert_contract"
    /\ LET fr == frame[t]
           contract == contract_dict(fr.sem.contract)
       IN  /\ dbContracts' = [dbContracts EXCEPT ![contract.code_hash] = contract]
           /\ Goto(t, "insert_address",
                   [fr EXCEPT !.contract_id = InsertContractId(dbContracts, contract),
                              !.trace = @ \o <<Ev(DB_INSERT_CONTRACT, contract.code_hash)>>])
    /\ UNCHANGED <<world, dbAddresses, dbSignatures, heap, caches, records, nCalls,
                   fetches, first>>

\* database.insert_address (lines 492-498) and, with a contract id, the
\* start of insert_contract_signatures (lines 500-504)
InsertAddress(t) ==
    /\ pc[t] = "insert_address"
    /\ LET fr == frame[t]
           key == <<fr.chain_id, fr.address>>
           queue == IF fr.contract_id THEN contract_signatures(fr.sem.contract) ELSE <<>>
       IN  /\ dbAddresses' = [dbAddresses EXCEPT ![key] = address_dict(fr.sem)]
           /\ Goto(t, IF queue = <<>> THEN "return_semantics" ELSE "get_signatures",
                   [fr EXCEPT !.queue = queue,
                              !.trace = @ \o <<Ev(DB_INSERT_ADDRESS, fr.address)>>])
    /\ UNCHANGED <<world, dbContracts, dbSignatures, heap, caches, records, nCalls,
                   fetches, first>>

---------------------------------------------------------------------------
(* update_or_insert_signature *)

\* database.get_signature_semantics and the loop that looks for the first
\* match (lines 553-561)
GetSignatures(t) ==
    /\ pc[t] = "get_signatures"
    /\ LET fr == frame[t]
           signature == Head(fr.queue)
           found == FirstMatch(dbSignatures, signature)
       IN  Goto(t, "insert_signature",
                [fr EXCEPT !.found = found,
                           !.sig = IF found = 0 THEN None ELSE dbSignatures[found],
                           !.trace = @ \o <<Ev(DB_GET_SIGNATURES, signature.signature_hash)>>])
    /\ UNCHANGED <<world, dbAddresses, dbContracts, dbSignatures, heap, caches,
                   records, nCalls, fetches, first>>

\* database.insert_signature: the matched record written back (lines
\* 562-572), or the new signature inserted (line 575)
InsertSignature(t) ==
    /\ pc[t] = "insert_signature"
    /\ LET fr == frame[t]
           signature == Head(fr.queue)
           rest == [fr EXCEPT !.queue = Tail(@), !.found = 0, !.sig = None,
                       !.trace = @ \o <<Ev(DB_INSERT_SIGNATURE, signature.signature_hash)>>]
       IN  /\ dbSignatures' =
                IF fr.found # 0
                THEN [dbSignatures EXCEPT ![fr.found] = updated_signature(signature, fr.sig)]
                ELSE Append(dbSignatures, signature)
           /\ IF rest.queue # <<>>
              THEN Goto(t, "get_signatures", rest)
              ELSE IF fr.method = "update_or_insert_signature"
              THEN Finish(t, Completed(rest, "returned", 0, None, FALSE))
              ELSE Goto(t, "return_semantics", rest)
    /\ UNCHANGED <<world, dbAddresses, dbContracts, heap, caches, records, nCalls,
                   fetches, first>>

\* a caller registers one signature
CallUpdateOrInsertSignature(t, signature) ==
    /\ pc[t] = "idle"
    /\ nCalls' = nCalls + 1
    /\ Goto(t, "get_signatures",
            [NewFrame("update_or_insert_signature", "", "", signature.signature_hash)
                EXCEPT !.queue = <<signature>>])
    /\ UNCHANGED <<world, dbAddresses, dbContracts, dbSignatures, heap, caches,
                   records, fetches, first>>

---------------------------------------------------------------------------
(* get_semantics returns *)

\* lines 280-286 for a record (the body returned None at line 185
\* otherwise), then lru_cache's wrapper stores the result
ReturnSemantics(t) ==
    /\ pc[t] = "return_semantics"
    /\ LET fr == frame[t]
           key == <<fr.chain_id, fr.address>>
           amended == [fr.sem EXCEPT !.contract = amend_contract_semantics(@)]
           ref == IF fr.sem = None THEN 0 ELSE Len(heap) + 1
           logged == fr.sem # None /\ records.on
           done == [fr EXCEPT !.trace =
                        IF fr.sem = None THEN @
                        ELSE @ \o <<Ev(AMEND, fr.sem.contract.code_hash)>>
                               \o (IF logged THEN <<Ev(RECORDS_APPEND, fr.address)>>
                                   ELSE <<>>)]
       IN  /\ heap' = IF fr.sem = None THEN heap ELSE Append(heap, amended)
           /\ records' = IF logged THEN [records EXCEPT !.log = Append(@, fr.address)]
                         ELSE records
           /\ caches' = [caches EXCEPT !["get_semantics"] = CachePut(@, key, ref)]
           /\ Returned(t, done, ref, IF fr.sem = None THEN None ELSE amended, FALSE)
    /\ UNCHANGED <<world, dbAddresses, dbContracts, dbSignatures, nCalls, fetches>>

---------------------------------------------------------------------------
(* record and end_record *)

NotRecording == [on |-> FALSE, log |-> <<>>]

Record(t) ==
    /\ pc[t] = "idle"
    /\ nCalls' = nCalls + 1
    /\ records' = [on |-> TRUE, log |-> <<>>]
    /\ Finish(t, Completed(NewFrame("record", "", "", NoneStr), "returned", 0, None, FALSE))
    /\ UNCHANGED <<world, dbAddresses, dbContracts, dbSignatures, heap, caches,
                   fetches, first>>

\* the value returned is the log, or None when nothing was being recorded
EndRecord(t) ==
    /\ pc[t] = "idle"
    /\ nCalls' = nCalls + 1
    /\ records' = NotRecording
    /\ Finish(t, Completed(NewFrame("end_record", "", "", NoneStr), "returned", 0,
                           records, FALSE))
    /\ UNCHANGED <<world, dbAddresses, dbContracts, dbSignatures, heap, caches,
                   fetches, first>>

---------------------------------------------------------------------------
(* The derived accessors, each behind an lru_cache of its own *)

\* a FunctionSemantics object of the AddressSemantics object ref
FnRef(ref, signature) == [ref |-> ref, fn |-> signature]

AccessorKey(fr) ==
    IF fr.method \in {"get_event_abi", "get_transformations", "get_function_abi"}
    THEN <<fr.chain_id, fr.address, fr.signature>>
    ELSE <<fr.chain_id, fr.address>>

\* the no-result value of an accessor
NoResult(method) ==
    CASE method = "check_is_contract" -> FALSE
      [] method = "get_standard" -> NoneStr
      [] OTHER -> None

AllEvents(events) == DOMAIN events
AnonymousEvents(events) == {i \in DOMAIN events : events[i].val.anonymous}

\* what the body of the accessor computes from the semantics it got;
\* functions are returned as objects of the record, not as copies
AccessorResult(method, signature, ref, semantics) ==
    IF semantics = None THEN NoResult(method)
    ELSE CASE method = "get_event_abi" -> DictGet(semantics.contract.events, signature)
           [] method = "get_transformations" ->
                IF DictHas(semantics.contract.transformations, signature)
                THEN [transformations |->
                        DictGet(semantics.contract.transformations, signature)]
                ELSE None
           [] method = "get_anonymous_event_abi" ->
                LET anonymous_events == AnonymousEvents(semantics.contract.events)
                IN  IF Cardinality(anonymous_events) = 1
                    THEN semantics.contract.events[CHOOSE i \in anonymous_events : TRUE].val
                    ELSE None
           [] method = "get_function_abi" ->
                IF DictHas(semantics.contract.functions, signature)
                THEN FnRef(ref, signature) ELSE None
           [] method = "get_constructor_abi" ->
                IF DictHas(semantics.contract.functions, FN_CONSTRUCTOR)
                THEN FnRef(ref, FN_CONSTRUCTOR) ELSE None
           [] method = "check_is_contract" -> semantics.is_contract
           [] OTHER -> semantics.standard

CreateOutput == ParameterSemantics("__create_output__", "ignore", <<>>, FALSE, TRUE)

\* constructor_semantics.outputs.append(...), on the object itself
AppendCreateOutput(semantics) ==
    [semantics EXCEPT !.contract.functions =
        [i \in DOMAIN @ |->
            IF @[i].key = FN_CONSTRUCTOR
            THEN [@[i] EXCEPT !.val.outputs = Append(@, CreateOutput)]
            ELSE @[i]]]

\* the value a caller sees in a result
ResultValue(method, h, result) ==
    IF method \in {"get_function_abi", "get_constructor_abi"} /\ result # None
    THEN DictGet(h[result.ref].contract.functions, result.fn)
    ELSE result

\* the lookup of the accessor's lru_cache and, when the key is not cached,
\* the body's first lines: `if not address: return None`
CallAccessor(t, method, chain_id, address, signature) ==
    /\ pc[t] = "idle"
    /\ nCalls' = nCalls + 1
    /\ LET fr == NewFrame(method, chain_id, address, signature)
           cache == caches[method]
           i == CacheFind(cache, AccessorKey(fr))
       IN  IF i # 0
           THEN /\ caches' = [caches EXCEPT ![method] = CacheTouch(cache, i)]
                /\ Finish(t, Completed(fr, "returned", 0,
                                       ResultValue(method, heap, cache[i].val), TRUE))
           ELSE /\ caches' = caches
                /\ Goto(t, IF NotAddress(address) THEN "return_accessor"
                           ELSE "nested_lookup", fr)
    /\ UNCHANGED <<world, dbAddresses, dbContracts, dbSignatures, heap, records,
                   fetches, first>>

\* the rest of the body, then lru_cache's wrapper stores the result
ReturnAccessor(t) ==
    /\ pc[t] = "return_accessor"
    /\ LET fr == frame[t]
           semantics == Deref(heap, fr.semref)
           result == AccessorResult(fr.method, fr.signature, fr.semref, semantics)
           appended == fr.method = "get_constructor_abi" /\ result # None
           h == IF appended
                THEN [heap EXCEPT ![fr.semref] = AppendCreateOutput(@)]
                ELSE heap
       IN  /\ heap' = h
           /\ caches' = [caches EXCEPT ![fr.method] = CachePut(@, AccessorKey(fr), result)]
           /\ Finish(t, Completed(fr, "returned", 0,
                                  ResultValue(fr.method, h, result), FALSE))
    /\ UNCHANGED <<world, dbAddresses, dbContracts, dbSignatures, records, nCalls,
                   fetches, first>>

---------------------------------------------------------------------------
(* The specification of sequential use: one caller, get_semantics *)

\* a repository just constructed
InitRepository ==
    /\ heap = <<>>
    /\ caches = [m \in Memoized |-> <<>>]
    /\ records = NotRecording
    /\ pc = [t \in Threads |-> "idle"]
    /\ frame = [t \in Threads |-> IdleFrame]
    /\ ret = [t \in Threads |-> NoCall]
    /\ nCalls = 0
    /\ fetches = [k \in Keys |-> 0]
    /\ first = [k \in Keys |-> Unset]

\* a repository just constructed, on a store with no address and no
\* contract record and with the given signature records
InitStore(w, registry) ==
    /\ world = w
    /\ dbAddresses = [k \in Keys |-> None]
    /\ dbContracts = [h \in Hashes |-> None]
    /\ dbSignatures = registry
    /\ InitRepository

InitState(w) == InitStore(w, <<>>)

\* the steps of a call of thread t that is under way
Step(t) ==
    \/ NestedLookup(t)
    \/ ReadAddress(t)
    \/ ReadContract(t)
    \/ InsertContract(t)
    \/ InsertAddress(t)
    \/ GetSignatures(t)
    \/ InsertSignature(t)
    \/ ReturnSemantics(t)
    \/ ReturnAccessor(t)

Init == \E w \in Worlds : InitState(w)

Next ==
    \/ /\ nCalls < MaxCalls
       /\ \E c \in Chains, a \in Addresses : CallGetSemantics("t1", c, a)
    \/ ReadAddress("t1")
    \/ ReadContract("t1")
    \/ InsertContract("t1")
    \/ InsertAddress("t1")
    \/ GetSignatures("t1")
    \/ InsertSignature("t1")
    \/ ReturnSemantics("t1")

Spec == Init /\ [][Next]_vars

---------------------------------------------------------------------------
(* Properties of get_semantics in sequential use *)

KeyOf(r) == <<r.chain_id, r.address>>
GotSemantics(r) == r.method = "get_semantics" /\ r.outcome = "returned"

\* the position of the first call of that name in a trace, 0 when absent
Pos(tr, call) ==
    IF \E i \in DOMAIN tr : tr[i].call = call
    THEN CHOOSE i \in DOMAIN tr : tr[i].call = call /\ \A j \in 1..(i - 1) : tr[j].call # call
    ELSE 0
Times(tr, call) == Cardinality({i \in DOMAIN tr : tr[i].call = call})

\* C1 (as amended): a get_semantics call made while its key is in the
\* memoization cache returns the very record the cache holds for the key
\* and makes no collaborator call at all: no store read, no code-hash
\* query, no registry fetch, no heuristic probe, no name resolution.
C1_CachedKeyIsNotFetched ==
    \A t \in Threads :
        /\ (pc[t] # "idle" /\ frame[t].method = "get_semantics") => ~frame[t].was_cached
        /\ (ret[t].method = "get_semantics" /\ ret[t].was_cached) =>
              /\ ret[t].outcome = "returned"
              /\ ret[t].trace = <<>>
              /\ ret[t].ref = ret[t].cached_ref
              /\ ret[t].value = Deref(heap, ret[t].cached_ref)

\* a second call for a resolved address was served from the cache
C1_Witness ==
    /\ GotSemantics(ret["t1"])
    /\ ret["t1"].address \in NonEmptyAddresses
    /\ ret["t1"].was_cached
    /\ ret["t1"].ref # 0
    /\ fetches[KeyOf(ret["t1"])] = 1

\* C1 (as stated): for every key with a non-empty address whose resolution
\* does not fail, the fetch sequence is executed at most once, and every
\* call returns the record the first call returned.
C1_FetchedAtMostOnce ==
    \A k \in Keys :
        (k[2] \in NonEmptyAddresses /\ world[k[2]].registry # Raise) =>
            /\ fetches[k] <= 1
            /\ \A t \in Threads :
                  (GotSemantics(ret[t]) /\ KeyOf(ret[t]) = k) => ret[t].value = first[k]

\* C3: within one resolution the store is read first, the code hash is
\* queried only after the store had no record, the registry is fetched
\* only after the code hash was not the EOA sentinel, the token guess is
\* made only after the registry gave no interface; each at most once; and
\* a resolution the store serves makes no code-hash, registry or
\* heuristic call and writes nothing to the store.
TierOrder(tr) ==
    LET s == Pos(tr, DB_GET_ADDRESS)
        h == Pos(tr, GET_CODE_HASH)
        r == Pos(tr, GET_CONTRACT_ABI)
        g == Pos(tr, GUESS_ERC20_TOKEN)
    IN  /\ tr # <<>> => s = 1
        /\ h # 0 => (s # 0 /\ s < h /\ tr[s].result = "none")
        /\ r # 0 => (h # 0 /\ h < r /\ tr[h].result # ZERO_HASH)
        /\ g # 0 => (r # 0 /\ r < g /\ tr[r].result = "none")
        /\ \A c \in {DB_GET_ADDRESS, GET_CODE_HASH, GET_CONTRACT_ABI, GUESS_ERC20_TOKEN} :
              Times(tr, c) <= 1
        /\ (s # 0 /\ tr[s].result = "found") =>
              Calls(tr) \cap {GET_CODE_HASH, GET_CONTRACT_ABI, GET_ERC20_TOKEN,
                              GUESS_ERC20_PROXY, GUESS_ERC20_TOKEN, DB_INSERT_CONTRACT,
                              DB_INSERT_ADDRESS, DB_INSERT_SIGNATURE} = {}

C3_TiersInOrder ==
    \A t \in Threads :
        /\ frame[t].method = "get_semantics" => TierOrder(frame[t].trace)
        /\ ret[t].method = "get_semantics" => TierOrder(ret[t].trace)

\* a resolution went through all four tiers
C3_Witness ==
    /\ GotSemantics(ret["t1"])
    /\ Pos(ret["t1"].trace, GUESS_ERC20_TOKEN) = 4

\* a resolution was served by the store
C3_WitnessStore ==
    /\ GotSemantics(ret["t1"])
    /\ ret["t1"].trace # <<>>
    /\ ret["t1"].trace[1].result = "found"

\* C4: every record get_semantics returns for an address whose code hash
\* is the EOA sentinel has is_contract false, contract name "EOA", no
\* events, no functions and no token descriptor, and the call that
\* returns it asks neither the registry nor the token or proxy heuristics.
C4_EOA ==
    \A t \in Threads :
        (GotSemantics(ret[t]) /\ ret[t].address \in NonEmptyAddresses
            /\ world[ret[t].address].code_hash = ZERO_HASH) =>
            /\ ret[t].value # None
            /\ ret[t].value.is_contract = FALSE
            /\ ret[t].value.contract.name = "EOA"
            /\ ret[t].value.contract.events = <<>>
            /\ ret[t].value.contract.functions = <<>>
            /\ ret[t].value.erc20 = None
            /\ Calls(ret[t].trace) \cap
                  {GET_CONTRACT_ABI, GUESS_ERC20_TOKEN, GUESS_ERC20_PROXY} = {}

\* a fresh resolution found the sentinel code hash
C4_Witness ==
    /\ GotSemantics(ret["t1"])
    /\ Pos(ret["t1"].trace, GET_CODE_HASH) = 2
    /\ ret["t1"].trace[2].result = ZERO_HASH
    /\ ret["t1"].value.contract.name = "EOA"

\* C6: for a contract address with no stored record whose registry fetch
\* fails or gives no usable interface, get_semantics goes on to the token
\* guess and returns a contract record.
C6_RegistryFailureFallsThrough ==
    \A t \in Threads :
        (ret[t].method = "get_semantics"
            /\ Pos(ret[t].trace, GET_CONTRACT_ABI) # 0
            /\ ret[t].trace[Pos(ret[t].trace, GET_CONTRACT_ABI)].result \in {"raise", "none"}) =>
            /\ ret[t].outcome = "returned"
            /\ Pos(ret[t].trace, GUESS_ERC20_TOKEN) # 0
            /\ ret[t].value.is_contract

---------------------------------------------------------------------------
(* The specification of concurrent use: two callers of get_semantics.    *)
(* lru_cache takes its lock for the lookup and for storing the result,   *)
(* not while the wrapped function runs, so the steps of two calls        *)
(* interleave freely.  No answer of a collaborator fails here.           *)

WorldsConc ==
    {[a \in Addresses |->
        IF a = A1 THEN p1 ELSE IF a = A2 THEN p2 ELSE EmptyProfile] :
        p1 \in {p \in ProfilesOf(A1, {H1}, {AbiErc20}) : p.registry # Raise},
        p2 \in {p \in ProfilesOf(A2, {H1, H2}, {AbiErc721}) :
                    p.registry # Raise /\ p.code_hash # ZERO_HASH}}

InitConc == \E w \in WorldsConc : InitState(w)

NextConc ==
    \E t \in Threads :
        \/ /\ nCalls < MaxConcCalls
           /\ \E c \in Chains, a \in NonEmptyAddresses : CallGetSemantics(t, c, a)
        \/ ReadAddress(t)
        \/ ReadContract(t)
        \/ InsertContract(t)
        \/ InsertAddress(t)
        \/ GetSignatures(t)
        \/ InsertSignature(t)
        \/ ReturnSemantics(t)

SpecConc == InitConc /\ [][NextConc]_vars

\* C2: concurrent calls of get_semantics for one key that is not cached
\* run the resolution of the key once, and every caller receives the
\* record that resolution produced.
C2_SingleFlight ==
    \A k \in Keys :
        /\ fetches[k] <= 1
        /\ \A t, u \in Threads :
              (GotSemantics(ret[t]) /\ GotSemantics(ret[u])
                  /\ KeyOf(ret[t]) = k /\ KeyOf(ret[u]) = k) => ret[t].ref = ret[u].ref

---------------------------------------------------------------------------
(* The specification of the accessors: one caller of get_semantics, of   *)
(* the derived accessors, of record and of end_record                    *)

WorldsAcc ==
    {[a \in Addresses |->
        IF a = A1 THEN p1 ELSE IF a = A2 THEN p2 ELSE EmptyProfile] :
        p1 \in {Profile(H1, RegistryAnswer(AbiPlain, TRUE), Raise, None, None, NoneStr)},
        p2 \in {Profile(H2, RegistryAnswer(AbiErc721, TRUE), Raise, None, None, NoneStr)}}

\* the signatures accessors are asked about
AccessorSignatures(method) ==
    CASE method = "get_event_abi" -> {EV_LOG}
      [] method = "get_function_abi" -> {FN_CONSTRUCTOR}
      [] method = "get_transformations" -> {FN_APPROVE}
      [] OTHER -> {NoneStr}

\* the store holds the record of A2 and of its contract, as an earlier
\* resolution of A2 wrote them
StoredAddress(w) == address_dict(resolve("1", A2, w[A2]).sem)
StoredContract(w) == contract_dict(resolve("1", A2, w[A2]).sem.contract)

InitStored(w) ==
        /\ world = w
        /\ dbAddresses = [k \in Keys |-> IF k = <<"1", A2>> THEN StoredAddress(w) ELSE None]
        /\ dbContracts =
              [h \in Hashes |-> IF h = w[A2].code_hash THEN StoredContract(w) ELSE None]
        /\ dbSignatures = contract_signatures(resolve("1", A2, w[A2]).sem.contract)
        /\ InitRepository

InitAcc == \E w \in WorldsAcc : InitStored(w)

NextAcc ==
    \/ /\ nCalls < MaxAccCalls
       /\ \E c \in Chains, a \in Addresses : CallGetSemantics("t1", c, a)
    \/ /\ nCalls < MaxAccCalls
       /\ \E m \in Accessors, c \in Chains, a \in Addresses :
             \E s \in AccessorSignatures(m) : CallAccessor("t1", m, c, a, s)
    \/ /\ nCalls < MaxAccCalls
       /\ Record("t1")
    \/ /\ nCalls < MaxAccCalls
       /\ EndRecord("t1")
    \/ Step("t1")

SpecAcc == InitAcc /\ [][NextAcc]_vars

\* the addresses a caller passes when it has none
EmptyOrAbsent == {"", NoneStr}

\* C5: get_semantics and every derived accessor, called with an empty or
\* absent address, return their no-result value (None; False for
\* check_is_contract) and make no collaborator call, no store write and
\* no append to the recording log, at any step of the call.
C5_EmptyAddressShortCircuits ==
    \A t \in Threads :
        /\ (ret[t].method \in Memoized /\ ret[t].address \in EmptyOrAbsent) =>
              /\ ret[t].trace = <<>>
              /\ ret[t].outcome = "returned"
              /\ ret[t].value = NoResult(ret[t].method)
        /\ (pc[t] # "idle" /\ frame[t].address \in EmptyOrAbsent) =>
              /\ frame[t].trace = <<>>
              /\ pc[t] \in {"return_semantics", "return_accessor"}

\* an accessor was called with no address while the log was recording,
\* and ran its body
C5_Witness ==
    \E t \in Threads :
        /\ ret[t].method \in Accessors
        /\ ret[t].address \in EmptyOrAbsent
        /\ ~ret[t].hit
        /\ ret[t].outcome = "returned"
        /\ records.on

---------------------------------------------------------------------------
(* The specification of the classifier: _decode_standard_semantics        *)
(* applied to every interface over the signatures of the model, by itself *)
(* and inside get_semantics                                               *)

\* the entries of order that are in set, in that order
Sub(order, set) == SelectSeq(order, LAMBDA x : x \in set)

ClassifierEvents == ERC20_EVENTS \cup ERC721_EVENTS \cup {EV_LOG}
ClassifierFunctions == ERC20_FUNCTIONS \cup ERC721_FUNCTIONS \cup {FN_EXEC}
ClassifierNames == {"Token"}

\* the live token read fails for A1 and succeeds for every other address
WorldClassify ==
    [a \in Addresses |->
        IF a = A1
        THEN Profile(H1, RegistryAnswer(AbiErc20, TRUE), Raise, None, None, NoneStr)
        ELSE IF a = A2
        THEN Profile(H2, RegistryAnswer(AbiErc20, TRUE), LiveToken, None, None, NoneStr)
        ELSE Profile(ZERO_HASH, RegistryUnavailable, LiveToken, None, None, NoneStr)]

\* self._decode_standard_semantics(address, name, events, functions), with
\* the maps decoded from the interface raw
CallDecodeStandardSemantics(t, address, raw) ==
    /\ pc[t] = "idle"
    /\ nCalls' = nCalls + 1
    /\ LET decoded == decode_events_and_functions(raw)
           cls == decode_standard_semantics(address, raw.name, decoded.events,
                                            decoded.functions, world[address].token_read)
           fr == [NewFrame("_decode_standard_semantics", "", address, NoneStr)
                    EXCEPT !.args = raw, !.classified = cls, !.trace = cls.trace]
       IN  Finish(t, Completed(fr, "returned", 0, None, FALSE))
    /\ UNCHANGED <<world, dbAddresses, dbContracts, dbSignatures, heap, caches,
                   records, fetches, first>>

InitClassify == InitState(WorldClassify)

NextClassify ==
    \/ /\ nCalls < MaxClassifyCalls
       /\ \E a \in Addresses, n \in ClassifierNames,
             evs \in SUBSET ClassifierEvents, fns \in SUBSET ClassifierFunctions :
             CallDecodeStandardSemantics("t1", a,
                 RawSemantics(n, Sub(EventOrder, evs), Sub(FunctionOrder, fns)))
    \/ /\ nCalls < MaxClassifyCalls
       /\ \E c \in Chains, a \in NonEmptyAddresses : CallGetSemantics("t1", c, a)
    \/ ReadAddress("t1")
    \/ InsertContract("t1")
    \/ InsertAddress("t1")
    \/ GetSignatures("t1")
    \/ InsertSignature("t1")
    \/ ReturnSemantics("t1")

SpecClassify == InitClassify /\ [][NextClassify]_vars

\* the standard an interface with these signatures qualifies for, ERC20
\* before ERC721
Qualifies(signatures, required) == \A x \in required : x \in signatures
ExpectedStandard(raw) ==
    LET signatures == Range(raw.events) \cup Range(raw.functions)
    IN  IF Qualifies(signatures, ERC20_EVENTS \cup ERC20_FUNCTIONS) THEN "ERC20"
        ELSE IF Qualifies(signatures, ERC721_EVENTS \cup ERC721_FUNCTIONS) THEN "ERC721"
        ELSE NoneStr

DecodedStandard(r) == r.method = "_decode_standard_semantics" /\ r.outcome = "returned"
\* a get_semantics call that built its record from the registry's interface
FromInterface(r) ==
    /\ GotSemantics(r)
    /\ \E i \in DOMAIN r.trace :
          r.trace[i].call = GET_CONTRACT_ABI /\ r.trace[i].result = "interface"

\* C7, as the code has it: for a non-empty address
\* _decode_standard_semantics returns "ERC20" exactly when every ERC20
\* event and function signature is in the maps, "ERC721" exactly when that
\* fails and every ERC721 signature is in them, and no standard otherwise
\* (so a qualifying set less any one required signature is not of that
\* standard, and a set qualifying for both is ERC20); for an empty or absent
\* address it returns no standard whatever the maps hold.
C7_Classification ==
    \A t \in Threads :
        /\ DecodedStandard(ret[t]) =>
              ret[t].classified.standard =
                  IF ret[t].address \in EmptyOrAbsent THEN NoneStr
                  ELSE ExpectedStandard(ret[t].args)
        /\ FromInterface(ret[t]) =>
              /\ ret[t].classified.standard =
                    ExpectedStandard(world[ret[t].address].registry.raw_semantics)
              /\ ret[t].value.standard = ret[t].classified.standard

\* C7 as it is stated: the standard follows from the maps alone
C7_ClassificationByMapsAlone ==
    \A t \in Threads :
        DecodedStandard(ret[t]) =>
            ret[t].classified.standard = ExpectedStandard(ret[t].args)

\* maps with every ERC721 signature and every ERC20 signature but one were
\* classified ERC721
C7_Witness ==
    \E t \in Threads :
        /\ DecodedStandard(ret[t])
        /\ ret[t].address = A1
        /\ Range(ret[t].args.events) = ERC721_EVENTS
        /\ Range(ret[t].args.functions) = ERC721_FUNCTIONS
        /\ ret[t].classified.standard = "ERC721"

\* C8: when the interface of a non-empty address has every ERC20 event
\* and function signature, the classification is "ERC20" with a token
\* descriptor, whether or not the live token read succeeds; when the read
\* fails the descriptor is (name, name, 18) with the declared name, and the
\* call returns.
C8_Erc20Descriptor ==
    \A t \in Threads :
        /\ (DecodedStandard(ret[t]) /\ ret[t].address \notin EmptyOrAbsent
              /\ ExpectedStandard(ret[t].args) = "ERC20") =>
              /\ ret[t].classified.standard = "ERC20"
              /\ ret[t].classified.standard_semantics # None
              /\ world[ret[t].address].token_read = Raise =>
                    ret[t].classified.standard_semantics =
                        ERC20Semantics(ret[t].args.name, ret[t].args.name, 18)
        /\ \A a \in NonEmptyAddresses :
              (/\ ret[t].method = "get_semantics"
               /\ ret[t].address = a
               /\ ret[t].outcome # ""
               /\ \E i \in DOMAIN ret[t].trace : ret[t].trace[i].call = GET_CONTRACT_ABI
               /\ ExpectedStandard(world[a].registry.raw_semantics) = "ERC20") =>
                  /\ ret[t].outcome = "returned"
                  /\ ret[t].value.standard = "ERC20"
                  /\ ret[t].value.erc20 # None
                  /\ world[a].token_read = Raise =>
                        ret[t].value.erc20 =
                            ERC20Semantics(world[a].registry.raw_semantics.name,
                                           world[a].registry.raw_semantics.name, 18)

\* get_semantics returned an ERC20 record with the default descriptor after
\* the live token read had failed
C8_Witness ==
    \E t \in Threads :
        /\ FromInterface(ret[t])
        /\ \E i \in DOMAIN ret[t].trace :
              ret[t].trace[i] = Ev(GET_ERC20_TOKEN, "raise")
        /\ ret[t].value.standard = "ERC20"
        /\ ret[t].value.erc20 = ERC20Semantics("Token", "Token", 18)

---------------------------------------------------------------------------
(* The specification of the signature registry: one caller that resolves  *)
(* addresses and registers signatures, on a registry that other writers   *)
(* of the shared store may have filled before                             *)

ApproveArgs == <<SignatureArg("spender", "address"), SignatureArg("value", "uint256")>>
SyntheticArgs == <<SignatureArg("arg0", "address"), SignatureArg("arg1", "uint256")>>

\* the signatures a caller registers
SignatureInputs ==
    {Signature(FN_APPROVE, "approve", ApproveArgs, DefaultCount, FALSE, DefaultGuessed),
     Signature(FN_APPROVE, "approve", SyntheticArgs, DefaultCount, FALSE, DefaultGuessed),
     Signature(FN_APPROVE, "approveAll", ApproveArgs, DefaultCount, FALSE, DefaultGuessed),
     Signature(FN_APPROVE, "approve", <<SignatureArg("spender", "address")>>,
               DefaultCount, FALSE, DefaultGuessed),
     Signature(FN_EXEC, "exec", <<>>, DefaultCount, FALSE, FALSE)}

\* the count of the records found in the store at the start
StoredCount == 5

\* the registry at the start: empty, one guessed record with synthetic
\* argument names, or two records of one (hash, name, argument count)
InitialRegistries ==
    {<<>>,
     <<Signature(FN_APPROVE, "approve", SyntheticArgs, StoredCount, FALSE, TRUE)>>,
     <<Signature(FN_APPROVE, "approve", ApproveArgs, StoredCount, FALSE, FALSE),
       Signature(FN_APPROVE, "approve", SyntheticArgs, DefaultCount, FALSE, TRUE)>>}

WorldsSig ==
    {[a \in Addresses |->
        IF a = A1
        THEN Profile(H1, RegistryAnswer(AbiErc20, TRUE), Raise, None, None, NoneStr)
        ELSE IF a = A2 THEN p2 ELSE EmptyProfile] :
        p2 \in {Profile(H2, RegistryAnswer(AbiErc721, TRUE), Raise, None, None, NoneStr),
                Profile(H1, RegistryAnswer(AbiErc20, TRUE), LiveToken, None, None, NoneStr)}}

InitSig == \E w \in WorldsSig, registry \in InitialRegistries : InitStore(w, registry)

NextSig ==
    \/ /\ nCalls < MaxSigCalls
       /\ \E signature \in SignatureInputs : CallUpdateOrInsertSignature("t1", signature)
    \/ /\ nCalls < MaxSigCalls
       /\ \E c \in Chains, a \in NonEmptyAddresses : CallGetSemantics("t1", c, a)
    \/ ReadAddress("t1")
    \/ InsertContract("t1")
    \/ InsertAddress("t1")
    \/ GetSignatures("t1")
    \/ InsertSignature("t1")
    \/ ReturnSemantics("t1")

SpecSig == InitSig /\ [][NextSig]_vars

\* the entries of the registry with the signature's hash, name and number
\* of arguments
SameSignature(db, signature) ==
    {i \in DOMAIN db :
        /\ db[i].signature_hash = signature.signature_hash
        /\ db[i].name = signature.name
        /\ Len(db[i].args) = Len(signature.args)}

\* thread t completes the database write of update_or_insert_signature
WritesSignature(t) == pc[t] = "insert_signature" /\ pc'[t] # "insert_signature"

\* C9: an update_or_insert_signature call whose signature matches an
\* entry of the registry by hash, name and argument count adds exactly 1
\* to the count of the first such entry and clears its guessed flag, leaves
\* every other entry as it was and inserts no entry.
C9_MatchIncrementsOnce ==
    [][\A t \in Threads :
        WritesSignature(t) =>
            LET signature == Head(frame[t].queue)
                same == SameSignature(dbSignatures, signature)
                i == CHOOSE i \in same : \A j \in same : i <= j
            IN  same # {} =>
                  /\ Len(dbSignatures') = Len(dbSignatures)
                  /\ dbSignatures'[i].count = dbSignatures[i].count + 1
                  /\ dbSignatures'[i].guessed = FALSE
                  /\ i \in SameSignature(dbSignatures', signature)
                  /\ \A j \in DOMAIN dbSignatures :
                        j # i => dbSignatures'[j] = dbSignatures[j]]_vars

\* of two entries of one (hash, name, argument count) the first was
\* registered again twice and the second is as it was
C9_Witness ==
    /\ Len(dbSignatures) = 2
    /\ dbSignatures[1].count = StoredCount + 2
    /\ dbSignatures[2] = Signature(FN_APPROVE, "approve", SyntheticArgs, DefaultCount,
                                   FALSE, TRUE)
    /\ ret["t1"].method = "update_or_insert_signature"

\* C10: over any sequence of resolutions and signature registrations no
\* entry of the registry is removed, the count of an entry never decreases
\* and its guessed flag never goes from false back to true.
C10_CountAndConfidenceMonotone ==
    [][\A i \in DOMAIN dbSignatures :
        /\ i \in DOMAIN dbSignatures'
        /\ dbSignatures'[i].count >= dbSignatures[i].count
        /\ dbSignatures[i].guessed = FALSE => dbSignatures'[i].guessed = FALSE]_vars

\* an entry that registrations made verified was registered again by a
\* resolution: created with the default count, then counted twice more
C10_Witness ==
    /\ GotSemantics(ret["t1"])
    /\ ~ret["t1"].hit
    /\ \E i \in DOMAIN ret["t1"].trace : ret["t1"].trace[i].call = DB_INSERT_SIGNATURE
    /\ \E i \in DOMAIN dbSignatures :
          /\ dbSignatures[i].signature_hash = FN_APPROVE
          /\ dbSignatures[i].count = DefaultCount + 2
          /\ dbSignatures[i].guessed = FALSE

\* C11: an update_or_insert_signature call whose signature matches no
\* entry of the registry by hash, name and argument count appends exactly
\* one entry, which is the signature as given (guessed unless the caller
\* marked it verified; guessed when insert_contract_signatures built it),
\* and leaves every entry that was there as it was.
C11_NewSignatureInsertedOnce ==
    [][\A t \in Threads :
        WritesSignature(t) =>
            LET signature == Head(frame[t].queue)
                n == Len(dbSignatures)
            IN  SameSignature(dbSignatures, signature) = {} =>
                  /\ Len(dbSignatures') = n + 1
                  /\ dbSignatures'[n + 1] = signature
                  /\ frame[t].method = "get_semantics" =>
                        /\ dbSignatures'[n + 1].guessed = TRUE
                        /\ dbSignatures'[n + 1].count = 1
                  /\ \A j \in 1..n : dbSignatures'[j] = dbSignatures[j]]_vars

\* a signature of a stored hash under another name was registered: it was
\* appended as guessed, and the stored record was not touched
C11_Witness ==
    /\ ret["t1"].method = "update_or_insert_signature"
    /\ ret["t1"].outcome = "returned"
    /\ Len(dbSignatures) = 2
    /\ dbSignatures[1] = Signature(FN_APPROVE, "approve", SyntheticArgs, StoredCount,
                                   FALSE, TRUE)
    /\ dbSignatures[2].signature_hash = FN_APPROVE
    /\ dbSignatures[2].name = "approveAll"
    /\ dbSignatures[2].guessed = TRUE

---------------------------------------------------------------------------
(* The specification of racing registrations: two callers resolve         *)
(* addresses whose contracts share a function, on a registry that is      *)
(* empty or holds that function's record                                  *)

WorldRace ==
    [a \in Addresses |->
        IF a = A1
        THEN Profile(H1, RegistryAnswer(AbiErc20, TRUE), Raise, None, None, NoneStr)
        ELSE IF a = A2
        THEN Profile(H2, RegistryAnswer(AbiErc721, TRUE), Raise, None, None, NoneStr)
        ELSE EmptyProfile]

RaceRegistries ==
    {<<>>, <<Signature(FN_APPROVE, "approve", ApproveArgs, StoredCount, FALSE, FALSE)>>}

InitRace == \E registry \in RaceRegistries : InitStore(WorldRace, registry)

SpecRace == InitRace /\ [][NextConc]_vars

OneEntryPerSignature ==
    \A i, j \in DOMAIN dbSignatures :
        j \in SameSignature(dbSignatures, dbSignatures[i]) => i = j

\* C12: whatever the interleaving of the registrations that concurrent
\* resolutions make, the registry never holds two entries of one (hash,
\* name, argument count), and every registration has the effect it has in
\* a sequential order: it adds an entry when the registry has none of its
\* key, and adds 1 to the count of the one it has otherwise.
C12_RegistrationsAsIfSequential ==
    /\ []OneEntryPerSignature
    /\ [][\A t \in Threads :
            WritesSignature(t) =>
                LET signature == Head(frame[t].queue)
                    same == SameSignature(dbSignatures, signature)
                IN  IF same = {}
                    THEN Len(dbSignatures') = Len(dbSignatures) + 1
                    ELSE /\ Len(dbSignatures') = Len(dbSignatures)
                         /\ \A i \in same :
                               dbSignatures'[i].count = dbSignatures[i].count + 1]_vars

\* the second part of C12 alone: no registration is lost
C12_NoLostRegistration ==
    [][\A t \in Threads :
        (WritesSignature(t) /\ frame[t].found # 0) =>
            dbSignatures'[frame[t].found].count = dbSignatures[frame[t].found].count + 1]_vars

---------------------------------------------------------------------------
(* get_most_used_signature, and the specification of registry lookups:    *)
(* one caller that registers signatures and asks for the most used one    *)

\* max(signatures, key=lambda x: x["count"]) keeps the item it holds unless
\* a later one is greater
KeyGreaterOrEqual(x, best) == x.count >= best.count
KeyGreater(x, best) == x.count > best.count

RECURSIVE max_by_count(_, _)
max_by_count(signatures, best) ==
    IF signatures = <<>> THEN best
    ELSE max_by_count(Tail(signatures),
                      IF KeyGreater(Head(signatures), best) THEN Head(signatures)
                      ELSE best)

\* database.get_signature_semantics(signature_hash): the records of the
\* hash, in the order of the store
get_signature_semantics(db, signature_hash) ==
    SelectSeq(db, LAMBDA sig : sig.signature_hash = signature_hash)

\* lines 533-550
most_used_signature(db, signature_hash) ==
    LET signatures == get_signature_semantics(db, signature_hash)
        most_common_signature == max_by_count(Tail(signatures), Head(signatures))
    IN  IF signatures # <<>>
        THEN Signature(most_common_signature.signature_hash, most_common_signature.name,
                       most_common_signature.args, most_common_signature.count,
                       most_common_signature.tuple, most_common_signature.guessed)
        ELSE None

CallGetMostUsedSignature(t, signature_hash) ==
    /\ pc[t] = "idle"
    /\ nCalls' = nCalls + 1
    /\ LET fr == [NewFrame("get_most_used_signature", "", "", signature_hash)
                    EXCEPT !.trace = <<Ev(DB_GET_SIGNATURES, signature_hash)>>]
       IN  Finish(t, Completed(fr, "returned", 0,
                               most_used_signature(dbSignatures, signature_hash), FALSE))
    /\ UNCHANGED <<world, dbAddresses, dbContracts, dbSignatures, heap, caches,
                   records, fetches, first>>

\* the hashes a caller asks about
LookupHashes == {FN_APPROVE, FN_EXEC, FN_OWNER_OF}

InitLookup == \E registry \in InitialRegistries : InitStore(WorldRace, registry)

NextLookup ==
    \/ /\ nCalls < MaxSigCalls
       /\ \E signature \in SignatureInputs : CallUpdateOrInsertSignature("t1", signature)
    \/ /\ nCalls < MaxSigCalls
       /\ \E h \in LookupHashes : CallGetMostUsedSignature("t1", h)
    \/ GetSignatures("t1")
    \/ InsertSignature("t1")

SpecLookup == InitLookup /\ [][NextLookup]_vars

\* thread t makes a get_most_used_signature call in this step
AsksMostUsed(t) ==
    /\ pc[t] = "idle"
    /\ nCalls' = nCalls + 1
    /\ ret'[t].method = "get_most_used_signature"

\* C13: get_most_used_signature(hash) returns None when the registry has
\* no entry of the hash, and otherwise an entry of the hash whose count no
\* entry of the hash exceeds, the first such entry in the store's order.
C13_MostUsedFirstOfHighest ==
    [][\A t \in Threads :
        AsksMostUsed(t) =>
            LET of == {i \in DOMAIN dbSignatures :
                          dbSignatures[i].signature_hash = ret'[t].signature}
            IN  /\ ret'[t].outcome = "returned"
                /\ of = {} => ret'[t].value = None
                /\ of # {} =>
                      \E i \in of :
                          /\ ret'[t].value = dbSignatures[i]
                          /\ \A j \in of :
                                /\ dbSignatures[j].count <= dbSignatures[i].count
                                /\ dbSignatures[j].count = dbSignatures[i].count => i <= j]_vars

\* two entries of the hash shared the highest count and the first of the
\* two was returned
C13_Witness ==
    /\ ret["t1"].method = "get_most_used_signature"
    /\ ret["t1"].signature = FN_APPROVE
    /\ pc["t1"] = "idle"
    /\ Len(dbSignatures) = 2
    /\ \A i \in 1..2 : dbSignatures[i].signature_hash = FN_APPROVE
    /\ dbSignatures[1].count = dbSignatures[2].count
    /\ ret["t1"].value = dbSignatures[1]
    /\ ret["t1"].value # dbSignatures[2]

---------------------------------------------------------------------------
(* The specification of the anonymous-event lookup: one caller of         *)
(* get_anonymous_event_abi and get_semantics, over contracts with no, one *)
(* and two anonymous events                                               *)

EV_NOTE == "0xev_note"
AbiMixed == RawSemantics("Dai", <<EV_TRANSFER, EV_LOG>>, <<FN_TRANSFER>>)
AbiTwoAnonymous == RawSemantics("Vat", <<EV_LOG, EV_NOTE>>, <<FN_EXEC>>)

\* A1 is resolved afresh; the record of A2 is in the store
WorldsAnon ==
    {[a \in Addresses |->
        IF a = A1 THEN p1 ELSE IF a = A2 THEN p2 ELSE EmptyProfile] :
        p1 \in {Profile(H1, RegistryAnswer(raw, TRUE), Raise, None, None, NoneStr) :
                    raw \in {AbiPlain, AbiMixed, AbiTwoAnonymous, AbiErc721}}
               \cup {Profile(ZERO_HASH, RegistryUnavailable, Raise, None, None, "alice.eth"),
                     Profile(H1, RegistryUnavailable, Raise, None, None, NoneStr)},
        p2 \in {Profile(H2, RegistryAnswer(raw, TRUE), Raise, None, None, NoneStr) :
                    raw \in {AbiTwoAnonymous, AbiMixed}}}

InitAnon == \E w \in WorldsAnon : InitStored(w)

NextAnon ==
    \/ /\ nCalls < MaxAccCalls
       /\ \E c \in Chains, a \in Addresses : CallGetSemantics("t1", c, a)
    \/ /\ nCalls < MaxAccCalls
       /\ \E c \in Chains, a \in Addresses :
             CallAccessor("t1", "get_anonymous_event_abi", c, a, NoneStr)
    \/ Step("t1")

SpecAnon == InitAnon /\ [][NextAnon]_vars

\* the anonymous events of the contract at an address, from the interface
\* the registry declares for it
DeclaredAnonymous(w) ==
    IF w.code_hash # ZERO_HASH /\ w.registry # Raise /\ w.registry.decoded
          /\ w.registry.raw_semantics # None
    THEN {e \in Range(w.registry.raw_semantics.events) : AbiEvent(e).anonymous}
    ELSE {}

\* C14: get_anonymous_event_abi returns an event exactly when the
\* resolved contract has exactly one event marked anonymous, and then it is
\* that event; with none or with two or more it returns None.
C14_ExactlyOneAnonymous ==
    \A t \in Threads :
        (ret[t].method = "get_anonymous_event_abi"
            /\ ret[t].address \in NonEmptyAddresses) =>
            LET anonymous == DeclaredAnonymous(world[ret[t].address])
            IN  /\ ret[t].outcome = "returned"
                /\ Cardinality(anonymous) = 1 =>
                      \A e \in anonymous : ret[t].value = AbiEvent(e)
                /\ Cardinality(anonymous) # 1 => ret[t].value = None

\* the one anonymous event of a contract with two events was returned
C14_Witness ==
    \E t \in Threads :
        /\ ret[t].method = "get_anonymous_event_abi"
        /\ ret[t].outcome = "returned"
        /\ ~ret[t].hit
        /\ world[ret[t].address].registry = RegistryAnswer(AbiMixed, TRUE)
        /\ ret[t].value = AbiEvent(EV_LOG)

\* a contract with two anonymous events gave no result
C14_WitnessTwo ==
    \E t \in Threads :
        /\ ret[t].method = "get_anonymous_event_abi"
        /\ ret[t].outcome = "returned"
        /\ ~ret[t].hit
        /\ world[ret[t].address].registry = RegistryAnswer(AbiTwoAnonymous, TRUE)
        /\ ret[t].value = None

---------------------------------------------------------------------------
(* The specification of the constructor lookup: one caller of            *)
(* get_constructor_abi, get_function_abi and get_semantics               *)

MaxCtorCalls == 4

NextCtor ==
    \/ /\ nCalls < MaxCtorCalls
       /\ \E c \in Chains, a \in NonEmptyAddresses : CallGetSemantics("t1", c, a)
    \/ /\ nCalls < MaxCtorCalls
       /\ \E c \in Chains, a \in Addresses :
             CallAccessor("t1", "get_constructor_abi", c, a, NoneStr)
    \/ /\ nCalls < MaxCtorCalls
       /\ \E c \in Chains, a \in NonEmptyAddresses :
             CallAccessor("t1", "get_function_abi", c, a, FN_CONSTRUCTOR)
    \/ Step("t1")

SpecCtor == InitAcc /\ [][NextCtor]_vars

\* the contract the registry declares for the address has a constructor
DeclaresConstructor(w) ==
    /\ w.code_hash # ZERO_HASH
    /\ w.registry # Raise
    /\ w.registry.raw_semantics # None
    /\ \E i \in DOMAIN w.registry.raw_semantics.functions :
          w.registry.raw_semantics.functions[i] = FN_CONSTRUCTOR

\* C15: in any sequence of accessor calls, every get_constructor_abi call
\* on a contract with a stored "constructor" function returns a function
\* whose outputs are the stored outputs followed by the one synthetic
\* ignorable marker, and nothing more.
C15_OneCreateOutput ==
    \A t \in Threads :
        (ret[t].method = "get_constructor_abi"
            /\ ret[t].address \in NonEmptyAddresses
            /\ DeclaresConstructor(world[ret[t].address])) =>
            /\ ret[t].value # None
            /\ ret[t].value.outputs =
                  Append(AbiFunction(FN_CONSTRUCTOR).outputs, CreateOutput)

\* the first get_constructor_abi call of a key does return one marker
C15_FirstCallOneMarker ==
    \A t \in Threads :
        (ret[t].method = "get_constructor_abi"
            /\ ret[t].address \in NonEmptyAddresses
            /\ DeclaresConstructor(world[ret[t].address])
            /\ ~ret[t].hit /\ ~ret[t].was_cached) =>
            /\ ret[t].value # None
            /\ ret[t].value.outputs =
                  Append(AbiFunction(FN_CONSTRUCTOR).outputs, CreateOutput)

---------------------------------------------------------------------------
(* Recording *)

\* a call of get_semantics by the user ends in this step: at once when the
\* key is cached, at the body's return otherwise
EndsGetSemantics(t) ==
    /\ pc'[t] = "idle"
    /\ ret'[t].method = "get_semantics"
    /\ \/ pc[t] = "idle" /\ nCalls' = nCalls + 1
       \/ pc[t] = "return_semantics"

\* recording starts with record() only
RecordingStartsWithRecord ==
    (records'.on /\ ~records.on) => \E t \in Threads : ret'[t].method = "record"

\* a call of get_semantics that ends while recording has appended its address
GetSemanticsIsLogged ==
    \A t \in Threads :
        (EndsGetSemantics(t) /\ records.on /\ ret'[t].address \in NonEmptyAddresses) =>
            records'.log = Append(records.log, ret'[t].address)

\* the same, of the calls whose key was not cached
FreshGetSemanticsIsLogged ==
    \A t \in Threads :
        (EndsGetSemantics(t) /\ records.on /\ ~ret'[t].hit
            /\ ret'[t].address \in NonEmptyAddresses) =>
            records'.log = Append(records.log, ret'[t].address)

\* record() and end_record() leave the caches, the objects and the store alone
TogglingKeepsCaches ==
    (records'.on # records.on) =>
        UNCHANGED <<caches, heap, dbAddresses, dbContracts, dbSignatures>>

\* C16: recording is inactive until record() is called; while it is active
\* every address passed to get_semantics, served from the cache or freshly
\* resolved, is appended to the log that end_record() returns; record() and
\* end_record() change neither the caches nor what they hold.
C16_EveryAddressLogged ==
    /\ ~records.on
    /\ [][RecordingStartsWithRecord]_vars
    /\ [][GetSemanticsIsLogged]_vars
    /\ [][TogglingKeepsCaches]_vars

\* what does hold: the calls that run the body are logged
C16_FreshAddressLogged ==
    /\ ~records.on
    /\ [][RecordingStartsWithRecord]_vars
    /\ [][FreshGetSemanticsIsLogged]_vars
    /\ [][TogglingKeepsCaches]_vars

\* end_record() returned a log with the address of a resolution in it
C16_LogReturned ==
    \E t \in Threads :
        /\ ret[t].method = "end_record"
        /\ ret[t].value # None
        /\ ret[t].value.on
        /\ ret[t].value.log = <<A1>>

---------------------------------------------------------------------------
(* The round trip through the store *)

\* _read_stored_semantics(chain_id, address) on the store as it is
read_stored_semantics(addresses, contracts, chain_id, address, w) ==
    LET raw == addresses[<<chain_id, address>>]
    IN  IF raw = None THEN None
        ELSE IF StoredEOA(raw)
        THEN stored_semantics(raw, ContractSemantics(raw.contract, "EOA", <<>>, <<>>, <<>>),
                              chain_id, address, w)
        ELSE stored_semantics(raw, stored_contract(contracts[raw.contract]),
                              chain_id, address, w)

\* update_semantics(semantics) has just written the record of the call
JustWritten(t) ==
    /\ pc[t] = "return_semantics"
    /\ frame[t].sem # None
    /\ \E i \in DOMAIN frame[t].trace : frame[t].trace[i].call = DB_INSERT_ADDRESS

Quiet == \A t \in Threads : pc[t] = "idle"

\* C17: a record written by update_semantics and read back by
\* _read_stored_semantics for the same key equals, in all fields, the
\* record that was resolved and written, also after other addresses have
\* been resolved and persisted in between.
C17_RoundTripAlways ==
    Quiet =>
        \A k \in Keys :
            dbAddresses[k] # None =>
                read_stored_semantics(dbAddresses, dbContracts, k[1], k[2], world[k[2]])
                    = resolve(k[1], k[2], world[k[2]]).sem

\* what does hold: read back at once, the record equals the one written
C17_RoundTripAtOnce ==
    \A t \in Threads :
        JustWritten(t) =>
            read_stored_semantics(dbAddresses, dbContracts, frame[t].chain_id,
                                  frame[t].address, world[frame[t].address])
                = frame[t].sem

\* a contract with events and functions has just been written
C17_Written ==
    \E t \in Threads :
        /\ JustWritten(t)
        /\ frame[t].sem.contract.functions # <<>>
        /\ frame[t].sem.erc20 # None

---------------------------------------------------------------------------
(* The Amendment Layer and the store *)

\* the contract semantics the resolver builds for an address with the code
\* hash of `contract`, before any amendment
ResolvedAs(contract, a) ==
    /\ world[a].code_hash = contract.code_hash
    /\ ~resolve("1", a, world[a]).raised
    /\ resolve("1", a, world[a]).sem.contract =
          [contract EXCEPT !.transformations = <<>>]

\* the transformations the Amendment Layer gives the contracts it knows
ExpectedTransformations(code_hash) ==
    IF code_hash = H2 THEN AmendedTransformations ELSE <<>>

C18_WitnessStore ==
    \E t \in Threads :
        /\ GotSemantics(ret[t])
        /\ ~ret[t].hit
        /\ \E i \in DOMAIN ret[t].trace : ret[t].trace[i].call = DB_GET_CONTRACT
        /\ \A i \in DOMAIN ret[t].trace : ret[t].trace[i].call # DB_INSERT_CONTRACT
        /\ ret[t].value.contract.code_hash = H2
        /\ ret[t].value.contract.transformations = AmendedTransformations

---------------------------------------------------------------------------
(* What a resolution leaves in the store and in the registry *)

\* the store holds the record of the call of t and of its contract
HoldsRecords(t) ==
    LET sem == frame[t].sem
    IN  /\ dbContracts[sem.contract.code_hash] = contract_dict(sem.contract)
        /\ dbAddresses[<<frame[t].chain_id, frame[t].address>>] = address_dict(sem)

\* the registry has an entry of the function
Registered(fn) ==
    \E i \in DOMAIN dbSignatures :
        /\ dbSignatures[i].signature_hash = fn.signature
        /\ dbSignatures[i].name = fn.name

\* every function of the contract of the call of t with a selector hash is
\* in the registry
GenuineRegistered(t) ==
    LET functions == frame[t].sem.contract.functions
    IN  \A i \in DOMAIN functions :
            functions[i].key # FN_CONSTRUCTOR => Registered(functions[i].val)

NoSyntheticRegistered ==
    \A i \in DOMAIN dbSignatures : dbSignatures[i].signature_hash # FN_CONSTRUCTOR

\* C19: after every resolution that the store tier did not serve, the
\* store holds the contract record and the address record of the resolved
\* record, every function of the resolved contract whose signature is a
\* selector hash is in the signature registry, and no function with a
\* synthetic identifier such as "constructor" is.
C19_PersistedAndRegistered ==
    \A t \in Threads :
        JustWritten(t) =>
            /\ HoldsRecords(t)
            /\ GenuineRegistered(t)
            /\ NoSyntheticRegistered

\* what does hold: the functions are registered when insert_contract
\* returned an id
C19_RegisteredWithContractId ==
    \A t \in Threads :
        JustWritten(t) =>
            /\ HoldsRecords(t)
            /\ frame[t].contract_id => GenuineRegistered(t)
            /\ NoSyntheticRegistered

\* a contract with a constructor and a function was resolved and registered
C19_Registered ==
    \E t \in Threads :
        /\ JustWritten(t)
        /\ frame[t].contract_id
        /\ \E i \in DOMAIN frame[t].sem.contract.functions :
              frame[t].sem.contract.functions[i].key = FN_CONSTRUCTOR
        /\ \E i \in DOMAIN dbSignatures : dbSignatures[i].signature_hash = FN_EXEC

---------------------------------------------------------------------------
(* The specification of signature registration by a resolution: one      *)
(* caller of get_semantics, over a registry that may know the functions  *)

AbiArgs ==
    RawSemantics("Exchange", <<>>, <<FN_CONSTRUCTOR, FN_FILL, FN_CANCEL, FN_PAUSE>>)

WorldsArgs ==
    {[a \in Addresses |->
        IF a = A1 THEN p1 ELSE IF a = A2 THEN p2 ELSE EmptyProfile] :
        p1 \in {Profile(H1, RegistryAnswer(raw, TRUE), Raise, None, None, NoneStr) :
                    raw \in {AbiArgs, AbiPlain}},
        p2 \in {Profile(H2, RegistryAnswer(AbiErc20, TRUE), LiveToken, None, None, NoneStr)}}

\* the registry is empty, or knows fill with three guessed arguments, or
\* with two arguments
ArgsRegistries ==
    {<<>>,
     <<Signature(FN_FILL, "fill",
                 <<SignatureArg("arg0", "address"), SignatureArg("arg1", "uint256"),
                   SignatureArg("arg2", "uint256")>>, StoredCount, FALSE, TRUE)>>,
     <<Signature(FN_FILL, "fill",
                 <<SignatureArg("order", "tuple"), SignatureArg("flag", "bool")>>,
                 StoredCount, TRUE, FALSE)>>}

InitArgs == \E w \in WorldsArgs, registry \in ArgsRegistries : InitStore(w, registry)

NextArgs ==
    \/ /\ nCalls < MaxCalls
       /\ \E c \in Chains, a \in Addresses : CallGetSemantics("t1", c, a)
    \/ ReadAddress("t1")
    \/ ReadContract("t1")
    \/ InsertContract("t1")
    \/ InsertAddress("t1")
    \/ GetSignatures("t1")
    \/ InsertSignature("t1")
    \/ ReturnSemantics("t1")

SpecArgs == InitArgs /\ [][NextArgs]_vars

\* the (name, type) pairs of a list of parameters, in order
NameTypes(params) ==
    [i \in 1..Len(params) |->
        [name |-> params[i].parameter_name, type |-> params[i].parameter_type]]

\* the nested components of a first input of type tuple, else every
\* top-level input
ExpectedArgs(fn) ==
    IF Len(fn.inputs) > 0 /\ fn.inputs[1].parameter_type = "tuple"
    THEN NameTypes(fn.inputs[1].components)
    ELSE NameTypes(fn.inputs)

\* insert_contract_signatures is registering a function of the contract
Registering(t) ==
    /\ pc[t] \in {"get_signatures", "insert_signature"}
    /\ frame[t].method = "get_semantics"

\* C20: for each function insert_contract_signatures registers, the
\* argument list registered is the ordered (name, type) list of the
\* nested components of the first input when that input is a tuple, and of
\* all top-level inputs otherwise (empty without inputs); an existing entry
\* is matched by the length of that list.
C20_RegisteredArgs ==
    \A t \in Threads :
        Registering(t) =>
            LET signature == Head(frame[t].queue)
                fn == DictGet(frame[t].sem.contract.functions, signature.signature_hash)
                expected == ExpectedArgs(fn)
                counted == {i \in DOMAIN dbSignatures :
                               /\ dbSignatures[i].signature_hash = fn.signature
                               /\ dbSignatures[i].name = fn.name
                               /\ Len(dbSignatures[i].args) = Len(expected)}
            IN  /\ signature.args = expected
                /\ pc[t] = "insert_signature" =>
                      IF counted = {} THEN frame[t].found = 0
                      ELSE frame[t].found \in counted

\* fill, whose first input is a tuple of three beside a second input, has
\* matched the entry with three arguments
C20_Witness ==
    \E t \in Threads :
        /\ Registering(t)
        /\ pc[t] = "insert_signature"
        /\ Head(frame[t].queue).signature_hash = FN_FILL
        /\ Len(Head(frame[t].queue).args) = 3
        /\ frame[t].found # 0

\* pause, without inputs, is registered with no argument
C20_WitnessEmpty ==
    \E t \in Threads :
        /\ Registering(t)
        /\ Head(frame[t].queue).signature_hash = FN_PAUSE
        /\ Head(frame[t].queue).args = <<>>

---------------------------------------------------------------------------
(* The specification of the record's presence: one caller of             *)
(* get_semantics, check_is_contract and get_standard, for an address     *)
(* with any answers of the collaborators beside an address in the store  *)

\* A1 is resolved afresh; the record of A2, an externally owned address
\* stored under its own address as name, or a contract, is in the store
WorldsPresence ==
    {[a \in Addresses |->
        IF a = A1 THEN p1 ELSE IF a = A2 THEN p2 ELSE EmptyProfile] :
        p1 \in ProfilesOf(A1, {H1, H2}, Abis),
        p2 \in {Profile(ZERO_HASH, RegistryUnavailable, Raise, None, None, A2),
                Profile(H2, RegistryAnswer(AbiErc721, TRUE), Raise, None, None, NoneStr)}}

InitPresence == \E w \in WorldsPresence : InitStored(w)

NextPresence ==
    \/ /\ nCalls < MaxAccCalls
       /\ \E c \in Chains, a \in NonEmptyAddresses : CallGetSemantics("t1", c, a)
    \/ /\ nCalls < MaxAccCalls
       /\ \E m \in {"check_is_contract", "get_standard"}, c \in Chains,
             a \in NonEmptyAddresses : CallAccessor("t1", m, c, a, NoneStr)
    \/ Step("t1")

SpecPresence == InitPresence /\ [][NextPresence]_vars

\* no collaborator fails for the address: the registry answers
AnswersNormally(a) == world[a].registry # Raise

\* C21: for every non-empty address and every combination of answers of
\* the collaborators that return normally (store miss or hit, any code
\* hash, registry with or without an interface, token guess succeeding or
\* not), get_semantics returns a record and never None, so the accessors
\* that read it never see an absent record.
C21_RecordNeverAbsent ==
    \A t \in Threads :
        /\ (ret[t].method = "get_semantics" /\ ret[t].address \in NonEmptyAddresses
                /\ AnswersNormally(ret[t].address)) =>
              /\ ret[t].outcome = "returned"
              /\ ret[t].value # None
              /\ ret[t].value.address = ret[t].address
        /\ (ret[t].method \in {"check_is_contract", "get_standard"}
                /\ ret[t].address \in NonEmptyAddresses
                /\ AnswersNormally(ret[t].address)) =>
              ret[t].outcome = "returned"
        /\ (pc[t] = "return_accessor" /\ frame[t].address \in NonEmptyAddresses) =>
              frame[t].semref # 0

\* get_standard got a record for a contract that the registry does not
\* know and that the token guess does not recognise
C21_Witness ==
    \E t \in Threads :
        /\ ret[t].method = "get_standard"
        /\ ret[t].outcome = "returned"
        /\ ~ret[t].hit
        /\ ret[t].address = A1
        /\ world[A1].code_hash # ZERO_HASH
        /\ world[A1].registry = RegistryUnavailable
        /\ world[A1].guess_token = None
        /\ \E i \in DOMAIN caches["get_semantics"] :
              /\ caches["get_semantics"][i].key = <<"1", A1>>
              /\ caches["get_semantics"][i].val # 0

---------------------------------------------------------------------------
(* The frame of a resolution: the records of other addresses *)

\* the contract name, events and functions the store tier rebuilds
StoredView(addresses, contracts, k) ==
    LET semantics == read_stored_semantics(addresses, contracts, k[1], k[2], world[k[2]])
    IN  [name |-> semantics.contract.name, events |-> semantics.contract.events,
         functions |-> semantics.contract.functions]

\* update_semantics of the call of t is about to write for an address
\* other than that of k, which has a record
PersistsOther(t, k) ==
    /\ pc[t] \in {"insert_contract", "insert_address"}
    /\ k # <<frame[t].chain_id, frame[t].address>>
    /\ dbAddresses[k] # None

SameView(k) ==
    StoredView(dbAddresses', dbContracts', k) = StoredView(dbAddresses, dbContracts, k)

\* C22: resolving and persisting one address leaves unchanged the contract
\* name, events and functions that _read_stored_semantics returns for any
\* other address, also when both share a code hash and the address
\* resolved goes through the heuristic tier.
C22_OtherAddressUnchanged ==
    [][\A t \in Threads : \A k \in Keys : PersistsOther(t, k) => SameView(k)]_vars

\* what does hold: the view of an address with another code hash, and the
\* address record of every other address, are left as they were
C22_OtherCodeHashUnchanged ==
    [][\A t \in Threads : \A k \in Keys :
          PersistsOther(t, k) =>
              /\ dbAddresses'[k] = dbAddresses[k]
              /\ dbAddresses[k].contract # frame[t].sem.contract.code_hash => SameView(k)]_vars

\* the store holds two addresses with one code hash, the second written by
\* the heuristic tier
C22_SharedCodeHash ==
    /\ Quiet
    /\ dbAddresses[<<"1", A1>>] # None
    /\ dbAddresses[<<"1", A2>>] # None
    /\ dbAddresses[<<"1", A1>>].contract = dbAddresses[<<"1", A2>>].contract
    /\ dbAddresses[<<"1", A1>>].contract # ZERO_HASH
    /\ Pos(ret["t1"].trace, GUESS_ERC20_TOKEN) # 0

====
